---- MODULE Spec2Model ----
(***************************************************************************)
(* A model of the HttpCall request engine (Go, package httpclient and      *)
(* package http2fp) and of the part of the front-end request store that    *)
(* feeds it.  Each component is a group of variables with its own          *)
(* specification; the components share the pure operators.                 *)
(***************************************************************************)
EXTENDS Integers, Sequences, FiniteSets, Bags, TLC

VARIABLES
    \* ---- Client.Send / followRedirects (redirect.go) ----
    rdPc,        \* position in Send: "start", "loop", "done"
    rdCfg,       \* RequestConfig fields read by Send: followRedirects, maxRedirects
    rdMax,       \* followRedirects' local maxRedirects after the <= 0 default
    rdI,         \* followRedirects' loop counter i
    rdReq,       \* the *http.Request about to be sent
    rdHops,      \* hops []models.RedirectHop
    rdOut,       \* what Send returns
    rdSent,      \* history: the requests handed to client.Do, in order
    rdServed,    \* history: number of 3xx-with-Location responses the server gave
    rdFree,      \* environment: redirects the server may still choose freely
    \* ---- parseResponse (response assembly) ----
    rsPc,        \* "start", "done"
    rsResp,      \* the *http.Response handed over by the transport
    rsOut,       \* what parseResponse returns
    \* ---- request building and HTTP/2 header encoding ----
    enPc,        \* "start", "built", "transport", "done"
    enCfg,       \* RequestConfig: header rows, cookies, auth, body type
    enText,      \* TlsConfig.CustomAkamai, the Akamai text
    enReq,       \* the *http.Request built by buildRequest
    enTransport, \* the CustomH2Transport built by buildTransport
    enBlock,     \* the header fields encodeHeaders wrote, in order
    \* ---- CustomH2Transport.RoundTrip and readResponse ----
    h2Pc,        \* "start", "dialed", "preface", "buffered", "read", "done"
    h2T,         \* the transport: Fingerprint and HeaderOrder
    h2Text,      \* the Akamai text the fingerprint was parsed from
    h2Req,       \* the request: method, URL parts, header bag, body length
    h2Conn,      \* the connection: "none", "open", "closed"
    h2Alpn,      \* the protocol the TLS handshake negotiated
    h2Buf,       \* writeBuf: the frames buffered by the first framer
    h2Wire,      \* the write calls made on the connection, each a list of frames
    h2Hdr,       \* readResponse: headersReceived
    h2Resp,      \* readResponse: resp.StatusCode and the number of header fields added
    h2Body,      \* readResponse: bodyBuf.Len()
    h2Read,      \* number of frames ReadFrame has returned
    h2Ctx,       \* the request context: "live", "cancelled"
    h2Deadline,  \* the connection's read deadline: "unset", "future", "now"
    h2Watcher,   \* the goroutine watching ctx.Done(): "none", "waiting", "fired", "exited"
    h2Out,       \* what RoundTrip returns
    h2Cause,     \* history: why the read loop ended
    h2Srv,       \* history: what the server sent on stream 1
    \* ---- h2FallbackTransport.RoundTrip ----
    fbPc,        \* "ready", "h2", "h1", "done"
    fbReq,       \* the request of the round trip in progress
    fbLog,       \* the calls this round trip made on the two transports, in order
    fbH2Res,     \* what t.h2.RoundTrip returned
    fbH1Res,     \* what t.h1.RoundTrip returned
    fbOut,       \* what RoundTrip returned to its caller
    fbN,         \* round trips started on this transport
    \* ---- the request store of the front end, and buildURL ----
    stUrl,       \* t.request.url: its part before the query and its query pairs
    stParams,    \* t.request.params
    stSent,      \* the query of the URL the engine built for the last send
    \* ---- loggedConn: the byte tap of one connection ----
    tpClock,     \* time.Since(c.start), in ticks of the monotonic clock
    tpWire,      \* history: the Read/Write calls of the wrapped conn, in the order they returned
    tpEntries,   \* c.entries
    tpG,         \* the reading and the writing goroutine: where each is in Read/Write
    tpSnap,      \* the slice the last getEntries returned
    tpOps,       \* Read/Write calls made so far
    \* ---- mergeConnEntries ----
    mgPc,        \* "start", "done"
    mgConns,     \* the loggedConns of one Send: start and entries of each
    mgOut,       \* the merged list
    \* ---- BuildSpecFromJA3 ----
    jaPc,        \* "start", "done"
    jaParsed,    \* the ParsedJA3: its extension ids
    jaGrease,    \* greaseExtensions as handed to the shuffle
    jaSpec,      \* spec.Extensions
    \* ---- httpProxyDialer.DialContext ----
    pxPc,        \* "start", "dialed", "written", "done"
    pxD,         \* the dialer: its auth
    pxProxy,     \* what the proxy does: its reply status, the bytes it sends after the reply
    pxReq,       \* the CONNECT request written to the proxy
    pxConn,      \* "none", "open", "closed"
    pxSock,      \* bytes of the proxy no read of conn has returned yet
    pxBr,        \* bytes read from conn that sit in br's buffer
    pxRet,       \* what DialContext returned
    pxGot,       \* bytes the caller read from the returned conn
    \* ---- parseTLSRecords ----
    tlPc,        \* "loop", "done"
    tlCapture,   \* the TLS records each captured chunk holds
    tlEntries,   \* entries: direction and bytes of each chunk
    tlI,         \* the entry the loop is at
    tlEvents,    \* events
    \* ---- Client.Send and Client.dialTLS, two Send calls on one Client ----
    clPc,        \* per Send call: "start", "run", "done"
    clDial,      \* per Send call: where its dialTLS is: "none", "tcp", "wrapped"
    clDials,     \* per Send call: the dialTLS calls it has begun
    clTiming,    \* c.timing: the call whose tracker it is, 0 when nil
    clConnLogs,  \* c.connLogs: the call each logged conn was dialled for
    clLastTarget, \* c.lastTarget: the call whose address it is, 0 when ""
    clLastTLS,   \* c.lastTLSInfo: the call whose handshake it describes, 0 when nil
    clTracker,   \* per Send call: its timingTracker, the call that set TCP and TLS
    clResult,    \* per Send call: the response record it returned
    \* ---- timingTracker ----
    tmPc,        \* where the Send call that owns the tracker is
    tmNow,       \* time.Now(), in nanoseconds
    tmAdv,       \* how often the clock has advanced
    tmLocal,     \* dialTLS: dnsStart and tlsStart
    tmT,         \* the tracker's instants, 0 for the zero time
    tmOut,       \* timing.result()
    \* ---- Client.Send: the transport and its connections ----
    snPc,        \* where Send is
    snCfg,       \* c.tlsConfig: the preset and the Akamai text
    snFollow,    \* config.FollowRedirects
    snMax,       \* maxRedirects inside followRedirects
    snI,         \* the loop counter of followRedirects
    snScheme,    \* req.URL.Scheme of the request about to be sent
    snConns,     \* every connection dialled for this Send, in dial order
    snCur,       \* the connection RoundTrip is working on, 0 when none
    snBody,      \* the connection under the open response body, 0 when none
    snResp,      \* the response client.Do returned last
    snOut,       \* what Send returns
    \* ---- the request tabs of the request store ----
    tbTabs,      \* s.tabs: the tabs in order, each with its request id and name
    tbActive,    \* s.activeTabId
    tbUid,       \* _uidCounter of uid()
    tbLive,      \* the ids of the tabs opened and not removed
    tbOps,       \* the calls made so far
    \* ---- the two mutexes: Client.mu and loggedConn.mu ----
    lkPc,        \* per goroutine: the statement it is at
    lkMu,        \* per mutex: the goroutine that holds it, or "free"
    lkRounds     \* how often the reading goroutine has started loggedConn.Read

varsRd == <<rdPc, rdCfg, rdMax, rdI, rdReq, rdHops, rdOut, rdSent, rdServed, rdFree>>
varsRs == <<rsPc, rsResp, rsOut>>
varsEn == <<enPc, enCfg, enText, enReq, enTransport, enBlock>>
varsH2 == <<h2Pc, h2T, h2Text, h2Req, h2Conn, h2Alpn, h2Buf, h2Wire, h2Hdr, h2Resp,
            h2Body, h2Read, h2Ctx, h2Deadline, h2Watcher, h2Out, h2Cause, h2Srv>>

varsFb == <<fbPc, fbReq, fbLog, fbH2Res, fbH1Res, fbOut, fbN>>
varsSt == <<stUrl, stParams, stSent>>
varsTp == <<tpClock, tpWire, tpEntries, tpG, tpSnap, tpOps>>
varsMg == <<mgPc, mgConns, mgOut>>
varsJa == <<jaPc, jaParsed, jaGrease, jaSpec>>
varsPx == <<pxPc, pxD, pxProxy, pxReq, pxConn, pxSock, pxBr, pxRet, pxGot>>
varsTl == <<tlPc, tlCapture, tlEntries, tlI, tlEvents>>
varsCl ==
    <<clPc, clDial, clDials, clTiming, clConnLogs, clLastTarget, clLastTLS, clTracker,
      clResult>>
varsTm ==
    <<tmPc, tmNow, tmAdv, tmLocal, tmT, tmOut>>
varsSn ==
    <<snPc, snCfg, snFollow, snMax, snI, snScheme, snConns, snCur, snBody, snResp, snOut>>
varsTb ==
    <<tbTabs, tbActive, tbUid, tbLive, tbOps>>
varsLk ==
    <<lkPc, lkMu, lkRounds>>

vars ==
    <<varsRd, varsRs, varsEn, varsH2, varsFb, varsSt, varsTp, varsMg, varsJa, varsPx,
      varsTl, varsCl, varsTm, varsSn, varsTb, varsLk>>

\* What a component's actions leave alone: the other components.
othersRd ==
    <<varsRs, varsEn, varsH2, varsFb, varsSt, varsTp, varsMg, varsJa, varsPx, varsTl,
      varsCl, varsTm, varsSn, varsTb, varsLk>>
othersRs ==
    <<varsRd, varsEn, varsH2, varsFb, varsSt, varsTp, varsMg, varsJa, varsPx, varsTl,
      varsCl, varsTm, varsSn, varsTb, varsLk>>
othersEn ==
    <<varsRd, varsRs, varsH2, varsFb, varsSt, varsTp, varsMg, varsJa, varsPx, varsTl,
      varsCl, varsTm, varsSn, varsTb, varsLk>>
othersH2 ==
    <<varsRd, varsRs, varsEn, varsFb, varsSt, varsTp, varsMg, varsJa, varsPx, varsTl,
      varsCl, varsTm, varsSn, varsTb, varsLk>>
othersFb ==
    <<varsRd, varsRs, varsEn, varsH2, varsSt, varsTp, varsMg, varsJa, varsPx, varsTl,
      varsCl, varsTm, varsSn, varsTb, varsLk>>
othersSt ==
    <<varsRd, varsRs, varsEn, varsH2, varsFb, varsTp, varsMg, varsJa, varsPx, varsTl,
      varsCl, varsTm, varsSn, varsTb, varsLk>>
othersTp ==
    <<varsRd, varsRs, varsEn, varsH2, varsFb, varsSt, varsMg, varsJa, varsPx, varsTl,
      varsCl, varsTm, varsSn, varsTb, varsLk>>
othersMg ==
    <<varsRd, varsRs, varsEn, varsH2, varsFb, varsSt, varsTp, varsJa, varsPx, varsTl,
      varsCl, varsTm, varsSn, varsTb, varsLk>>
othersJa ==
    <<varsRd, varsRs, varsEn, varsH2, varsFb, varsSt, varsTp, varsMg, varsPx, varsTl,
      varsCl, varsTm, varsSn, varsTb, varsLk>>
othersPx ==
    <<varsRd, varsRs, varsEn, varsH2, varsFb, varsSt, varsTp, varsMg, varsJa, varsTl,
      varsCl, varsTm, varsSn, varsTb, varsLk>>
othersTl ==
    <<varsRd, varsRs, varsEn, varsH2, varsFb, varsSt, varsTp, varsMg, varsJa, varsPx,
      varsCl, varsTm, varsSn, varsTb, varsLk>>
othersCl ==
    <<varsRd, varsRs, varsEn, varsH2, varsFb, varsSt, varsTp, varsMg, varsJa, varsPx,
      varsTl, varsTm, varsSn, varsTb, varsLk>>
othersTm ==
    <<varsRd, varsRs, varsEn, varsH2, varsFb, varsSt, varsTp, varsMg, varsJa, varsPx,
      varsTl, varsCl, varsSn, varsTb, varsLk>>
othersSn ==
    <<varsRd, varsRs, varsEn, varsH2, varsFb, varsSt, varsTp, varsMg, varsJa, varsPx,
      varsTl, varsCl, varsTm, varsTb, varsLk>>
othersTb ==
    <<varsRd, varsRs, varsEn, varsH2, varsFb, varsSt, varsTp, varsMg, varsJa, varsPx,
      varsTl, varsCl, varsTm, varsSn, varsLk>>
othersLk ==
    <<varsRd, varsRs, varsEn, varsH2, varsFb, varsSt, varsTp, varsMg, varsJa, varsPx,
      varsTl, varsCl, varsTm, varsSn, varsTb>>

(***************************************************************************)
(* Bounds of the model.                                                    *)
(***************************************************************************)
MaxN == 3          \* largest max_redirects a caller passes
MaxFreeHops == 1   \* redirects whose status and Location the server picks freely
MaxRows == 2       \* header rows of a request configuration
MaxFrames == 3     \* frames the server sends before the connection ends
MaxRequests == 2   \* round trips made on one fallback transport
MaxParams == 2     \* rows of the Params tab
MaxBulkFrames == 8 \* frames of a response that fills the body limit
MaxOps == 3        \* Read and Write calls on a tapped connection
MaxTicks == 2      \* ticks of the clock while a connection is tapped
MaxEntries == 2    \* entries of one connection's log when logs are merged
MaxExts == 3       \* extension ids of a JA3
MaxTunnel == 2     \* bytes the proxy sends after its reply
MaxRecords == 2    \* TLS records in one captured chunk
MaxChunks == 2     \* captured chunks handed to parseTLSRecords
MaxDials == 2      \* dialTLS calls of one Send (H2 fallback dials again)
MaxAdvances == 4   \* advances of the clock during one Send
MaxSendHops == 2   \* largest maxRedirects of a Send whose connections are followed
MaxTabOps == 4     \* calls on the tab store
MaxOrderLen == 3   \* longest id list passed to setTabOrder
MaxRounds == 3     \* reads of the goroutine that reads the connection

(***************************************************************************)
(* Small helpers.                                                          *)
(***************************************************************************)
Range(s) == {s[i] : i \in 1..Len(s)}

(***************************************************************************)
(* Client.Send with followRedirects.                                       *)
(***************************************************************************)
DefaultMaxRedirects == 10

Hosts == {"a.test", "b.test"}
Paths == {"/x", "/y"}
URLs == [host : Hosts, path : Paths]
StartURL == [host |-> "a.test", path |-> "/x"]

\* Location header values: absent (""), an absolute URL, or a relative path.
NoLocation == [kind |-> "none", host |-> "", path |-> ""]
Locations ==
    [kind : {"abs"}, host : Hosts, path : Paths]
        \cup [kind : {"rel"}, host : {""}, path : Paths]

RedirectStatuses == {301, 302, 303, 307, 308}
FinalStatuses == {200, 404}

\* req.URL.Parse(location): resolve a reference against the current URL.
ResolveLocation(cur, loc) ==
    IF loc.kind = "abs"
    THEN [host |-> loc.host, path |-> loc.path]
    ELSE [host |-> cur.host, path |-> loc.path]

\* A follow-up request that keeps the method and the body of the request
\* that was redirected.
NextRequestKeepsMethod(req, loc) ==
    [method |-> req.method, url |-> ResolveLocation(req.url, loc), body |-> req.body,
     headers |-> FALSE, ctx |-> req.ctx]

\* http.NewRequestWithContext(req.Context(), "GET", nextURL.String(), nil)
NextRequest(req, loc) ==
    [method |-> "GET", url |-> ResolveLocation(req.url, loc), body |-> FALSE,
     headers |-> FALSE, ctx |-> req.ctx]

\* models.RedirectHop{URL: req.URL.String(), Status: resp.StatusCode, ...}
HopOf(req, resp) == [url |-> req.url, status |-> resp.status, location |-> resp.location]

\* A loop that runs once more than maxRedirects.
LoopGuardOneMore(i, max) == i <= max

\* for i := 0; i < maxRedirects; i++
LoopGuard(i, max) == i < max

\* if maxRedirects <= 0 { maxRedirects = 10 }
EffectiveMax(n) == IF n <= 0 THEN DefaultMaxRedirects ELSE n

NoOut == [kind |-> "none", status |-> 0, err |-> "", hops |-> <<>>]

InitRd ==
    /\ rdPc = "start"
    /\ rdCfg \in [followRedirects : BOOLEAN, maxRedirects : 0..MaxN,
                  method : {"GET", "POST"}]
    /\ rdMax = 0
    /\ rdI = 0
    /\ rdReq = [method |-> rdCfg.method, url |-> StartURL,
                body |-> (rdCfg.method = "POST"), headers |-> TRUE, ctx |-> "ctx"]
    /\ rdHops = <<>>
    /\ rdOut = NoOut
    /\ rdSent = <<>>
    /\ rdServed = 0
    /\ rdFree = MaxFreeHops

\* Send, config.FollowRedirects: enter followRedirects.
SendFollow ==
    /\ rdPc = "start"
    /\ rdCfg.followRedirects
    /\ rdMax' = EffectiveMax(rdCfg.maxRedirects)
    /\ rdI' = 0
    /\ rdPc' = "loop"
    /\ UNCHANGED <<rdCfg, rdReq, rdHops, rdOut, rdSent, rdServed, rdFree>>
    /\ UNCHANGED othersRd

\* Send, !config.FollowRedirects: one httpClient.Do, the response is returned as it is.
SendDirect ==
    /\ rdPc = "start"
    /\ ~rdCfg.followRedirects
    /\ \E r \in [kind : {"resp"}, status : FinalStatuses \cup RedirectStatuses]
                \cup {[kind |-> "err", status |-> 0]} :
          rdOut' = IF r.kind = "err"
                   THEN [kind |-> "err", status |-> 0, err |-> "transport", hops |-> <<>>]
                   ELSE [kind |-> "resp", status |-> r.status, err |-> "", hops |-> <<>>]
    /\ rdSent' = Append(rdSent, rdReq)
    /\ rdPc' = "done"
    /\ UNCHANGED <<rdCfg, rdMax, rdI, rdReq, rdHops, rdServed, rdFree>>
    /\ UNCHANGED othersRd

\* One iteration of the loop whose client.Do fails: return hops, nil, err.
DoError ==
    /\ rdPc = "loop"
    /\ LoopGuard(rdI, rdMax)
    /\ rdSent' = Append(rdSent, rdReq)
    /\ rdOut' = [kind |-> "err", status |-> 0, err |-> "transport", hops |-> <<>>]
    /\ rdPc' = "done"
    /\ UNCHANGED <<rdCfg, rdMax, rdI, rdReq, rdHops, rdServed, rdFree>>
    /\ UNCHANGED othersRd

\* One iteration whose response is not a redirect to follow: status outside 3xx,
\* or a 3xx without Location.  return hops, resp, nil.
DoFinal ==
    /\ rdPc = "loop"
    /\ LoopGuard(rdI, rdMax)
    /\ \E st \in FinalStatuses \cup {304} :
          rdOut' = [kind |-> "resp", status |-> st, err |-> "", hops |-> rdHops]
    /\ rdSent' = Append(rdSent, rdReq)
    /\ rdPc' = "done"
    /\ UNCHANGED <<rdCfg, rdMax, rdI, rdReq, rdHops, rdServed, rdFree>>
    /\ UNCHANGED othersRd

\* One iteration whose response is a 3xx with a Location: record the hop, build
\* the follow-up request, i++.
DoRedirect ==
    /\ rdPc = "loop"
    /\ LoopGuard(rdI, rdMax)
    /\ \E st \in RedirectStatuses, loc \in Locations :
          \* once its free choices are used up the server only redirects in a cycle
          /\ rdFree = 0 => (st = 302 /\ loc = [kind |-> "rel", host |-> "", path |-> rdReq.url.path])
          /\ rdHops' = Append(rdHops, HopOf(rdReq, [status |-> st, location |-> loc]))
          /\ rdReq' = NextRequest(rdReq, loc)
    /\ rdSent' = Append(rdSent, rdReq)
    /\ rdServed' = rdServed + 1
    /\ rdFree' = IF rdFree > 0 THEN rdFree - 1 ELSE 0
    /\ rdI' = rdI + 1
    /\ UNCHANGED <<rdPc, rdCfg, rdMax, rdOut>>
    /\ UNCHANGED othersRd

\* The loop ran maxRedirects times: return hops, nil, "too many redirects";
\* Send returns nil, err because resp == nil.
TooMany ==
    /\ rdPc = "loop"
    /\ ~LoopGuard(rdI, rdMax)
    /\ rdOut' = [kind |-> "err", status |-> 0, err |-> "too many redirects", hops |-> <<>>]
    /\ rdPc' = "done"
    /\ UNCHANGED <<rdCfg, rdMax, rdI, rdReq, rdHops, rdSent, rdServed, rdFree>>
    /\ UNCHANGED othersRd

NextRd == SendFollow \/ SendDirect \/ DoError \/ DoFinal \/ DoRedirect \/ TooMany

IdleRd ==
    /\ rdPc = "idle" /\ rdCfg = <<>> /\ rdMax = 0 /\ rdI = 0 /\ rdReq = <<>>
    /\ rdHops = <<>> /\ rdOut = <<>> /\ rdSent = <<>> /\ rdServed = 0 /\ rdFree = 0

(***************************************************************************)
(* parseResponse: drain the body under the cap, decompress, classify.      *)
(***************************************************************************)
\* const maxBodySize = 100 * 1024 * 1024
maxBodySize == 100 * 1024 * 1024

Min(a, b) == IF a < b THEN a ELSE b

\* A body is its length, the form of its bytes ("text", "binary": plain bytes;
\* "gzip", "deflate": a well-formed compressed stream) and, for a compressed
\* stream, what it holds: plainLen bytes that are text or not.
BodyLens == {0, 1, maxBodySize - 1, maxBodySize, maxBodySize + 1, 2 * maxBodySize}
BodyForms == {"text", "binary", "gzip", "deflate"}
Bodies ==
    {b \in [len : BodyLens, form : BodyForms, cut : {FALSE}, plainText : BOOLEAN] :
        /\ b.form \in {"gzip", "deflate"} => b.len > 1
        /\ b.form \in {"text", "binary"} => b.plainText = (b.form = "text")}

\* io.ReadAll(io.LimitReader(resp.Body, maxBodySize)): the first maxBodySize
\* bytes, and no error when more were there.
LimitedRead(body, limit) ==
    [body EXCEPT !.len = Min(body.len, limit), !.cut = body.len > limit]

\* strings.ToLower(resp.Header.Get("Content-Encoding"))
ContentEncodingHeaders == {"", "gzip", "GZIP", "deflate", "br"}
ToLower(h) == IF h = "GZIP" THEN "gzip" ELSE h

\* what io.ReadAll returns beside the error when the reader fails: the bytes
\* decompressed before the failure
PartialOutput == [len |-> 0, form |-> "partial", cut |-> FALSE, plainText |-> FALSE]

\* decompressBody: [ok, nil, data]; nil for an encoding it does not handle.
\* A reader fails on bytes that are not a complete stream of its format:
\* gzip.NewReader on bytes without a gzip header (return nil, err), io.ReadAll
\* on a stream that is cut off or is not deflate (the partial output and err).
decompressBody(data, encoding) ==
    IF encoding \in {"gzip", "deflate"}
    THEN IF data.form = encoding /\ ~data.cut
         THEN [ok |-> TRUE, nil |-> FALSE,
               data |-> [len |-> 2 * data.len,
                         form |-> IF data.plainText THEN "text" ELSE "binary",
                         cut |-> FALSE, plainText |-> data.plainText]]
         ELSE IF encoding = "gzip" /\ data.form # "gzip"
         THEN [ok |-> FALSE, nil |-> TRUE, data |-> data]
         ELSE [ok |-> FALSE, nil |-> FALSE, data |-> PartialOutput]
    ELSE [ok |-> TRUE, nil |-> TRUE, data |-> data]

\* A test that takes whatever the reader returned.
ReplacesBodyIfAny(d) == ~d.nil

\* if err == nil && decompressed != nil { bodyBytes = decompressed }
ReplacesBody(d) == d.ok /\ ~d.nil

\* utf8.Valid(bodyBytes) && !containsNullBytes(bodyBytes)
IsText(data) == data.form = "text" \/ data.len = 0

parseResponse(resp) ==
    LET bodyBytes == LimitedRead(resp.body, maxBodySize)
        rawSize == bodyBytes.len
        contentEncoding == ToLower(resp.contentEncoding)
        d == decompressBody(bodyBytes, contentEncoding)
        final == IF ReplacesBody(d) THEN d.data ELSE bodyBytes
    IN [kind |-> "ok", status |-> resp.status, size |-> rawSize,
        contentEncoding |-> contentEncoding, body |-> final,
        isBase64 |-> ~IsText(final)]

InitRs ==
    /\ rsPc = "start"
    /\ rsResp \in [status : {200, 404}, body : Bodies,
                   contentEncoding : ContentEncodingHeaders]
    /\ rsOut = [kind |-> "none"]

\* parseResponse returns a record.
ParseResponse ==
    /\ rsPc = "start"
    /\ rsOut' = parseResponse(rsResp)
    /\ rsPc' = "done"
    /\ UNCHANGED rsResp
    /\ UNCHANGED othersRs

\* io.ReadAll fails (the connection broke while the body was read): return nil, err.
ParseResponseReadError ==
    /\ rsPc = "start"
    /\ rsOut' = [kind |-> "err"]
    /\ rsPc' = "done"
    /\ UNCHANGED rsResp
    /\ UNCHANGED othersRs

NextRs == ParseResponse \/ ParseResponseReadError

IdleRs == rsPc = "idle" /\ rsResp = <<>> /\ rsOut = <<>>

(***************************************************************************)
(* ParseAkamaiText (akamai.go).  An Akamai text is modelled by its tokens: *)
(* the number of "|"-separated parts, the ";"-separated settings entries,  *)
(* the window-update part and the ","-separated header-order letters.      *)
(* A number token is its value; -1 stands for a token that is not a        *)
(* decimal number and -2 for a decimal number of 2^32 or more (the values  *)
(* the model writes down are all below 2^31).                              *)
(***************************************************************************)
TwoTo16 == 65536

\* strconv.ParseUint(s, 10, bits) succeeds, bits being 16 or 32
ParsesAsUint(n, bits) == n >= 0 /\ (bits = 16 => n < TwoTo16)

\* strings.TrimSpace on a header-order letter
TrimSpace(letter) == IF letter = " m" THEN "m" ELSE letter

\* A letterMap that takes "a" for :scheme and "s" for :authority.
letterMapSwapped ==
    [l \in {"m", "a", "s", "p"} |->
        CASE l = "m" -> ":method"
          [] l = "a" -> ":scheme"
          [] l = "s" -> ":authority"
          [] l = "p" -> ":path"]

\* letterMap
letterMap ==
    [l \in {"m", "a", "s", "p"} |->
        CASE l = "m" -> ":method"
          [] l = "a" -> ":authority"
          [] l = "s" -> ":scheme"
          [] l = "p" -> ":path"]

\* Part 1: entries that are not id:value with both numbers in range are skipped.
SettingParses(tok) ==
    tok.colon /\ ParsesAsUint(tok.id, 16) /\ ParsesAsUint(tok.val, 32)

ParseSettings(toks) ==
    LET kept == SelectSeq(toks, SettingParses)
    IN [i \in 1..Len(kept) |-> [ID |-> kept[i].id, Val |-> kept[i].val]]

\* Part 4: letters outside letterMap are skipped.
ParseHeaderOrder(letters) ==
    LET known(l) == TrimSpace(l) \in DOMAIN letterMap
        kept == SelectSeq(letters, known)
    IN [i \in 1..Len(kept) |-> letterMap[TrimSpace(kept[i])]]

IsEmptyText(t) == t.nparts = 1 /\ t.settings = <<>>

\* ParseAkamaiText: called on a non-empty text it never fails.
ParseAkamaiText(t) ==
    [Settings |-> ParseSettings(t.settings),
     WindowUpdateIncrement |->
        IF t.nparts > 1 /\ ParsesAsUint(t.wu, 32) THEN t.wu ELSE 0,
     PriorityFrames |-> IF t.nparts > 2 THEN t.prio ELSE "",
     HeaderOrder |-> IF t.nparts > 3 THEN ParseHeaderOrder(t.order) ELSE <<>>]

(***************************************************************************)
(* buildRequest: the header bag of the outgoing request.  A header key is  *)
(* a name and the letter case it is written in; http.Header stores keys    *)
(* in canonical case.  The bag is a map, and `ins` records the order in    *)
(* which its keys were first set (Go's map does not keep it).              *)
(***************************************************************************)
Key(n, c) == [n |-> n, c |-> c]
\* http.CanonicalHeaderKey
CanonicalHeaderKey(k) == Key(k.n, "canon")
\* strings.ToLower
ToLowerKey(k) == Key(k.n, "lower")

EmptyHeader == [map |-> <<>>, ins |-> <<>>]

HasKey(h, k) == \E i \in 1..Len(h.ins) : h.ins[i] = k

\* the values stored under k
Values(h, k) == h.map[CHOOSE i \in 1..Len(h.ins) : h.ins[i] = k]

\* req.Header.Get(k)
HeaderGet(h, k) ==
    LET ck == CanonicalHeaderKey(k)
    IN IF HasKey(h, ck) /\ Len(Values(h, ck)) > 0 THEN Values(h, ck)[1] ELSE ""

\* req.Header.Set(k, v): one value under the canonical key, replacing any other
HeaderSet(h, k, v) ==
    LET ck == CanonicalHeaderKey(k)
    IN IF HasKey(h, ck)
       THEN [h EXCEPT !.map = [i \in 1..Len(h.ins) |->
                                   IF h.ins[i] = ck THEN <<v>> ELSE h.map[i]]]
       ELSE [map |-> Append(h.map, <<v>>), ins |-> Append(h.ins, ck)]

RECURSIVE applyHeadersFrom(_, _, _)
applyHeadersFrom(h, rows, i) ==
    IF i > Len(rows) THEN h
    ELSE applyHeadersFrom(
            IF rows[i].enabled /\ rows[i].key.n # ""
            THEN HeaderSet(h, rows[i].key, rows[i].value) ELSE h,
            rows, i + 1)

\* applyHeaders
applyHeaders(h, config) == applyHeadersFrom(h, config.headers, 1)

\* applyCookies: req.AddCookie joins the enabled cookies into one Cookie header
applyCookies(h, config) ==
    IF config.cookies > 0
    THEN HeaderSet(h, Key("cookie", "canon"), "cookies") ELSE h

\* applyAuth
applyAuth(h, config) ==
    CASE config.auth = "bearer" -> HeaderSet(h, Key("authorization", "canon"), "Bearer t")
      [] config.auth = "apikey" -> HeaderSet(h, Key("x-api-key", "lower"), "k")
      [] OTHER -> h

\* applyContentType
applyContentType(h, config) ==
    IF HeaderGet(h, Key("content-type", "canon")) # "" THEN h
    ELSE CASE config.bodyType = "json" ->
                 HeaderSet(h, Key("content-type", "canon"), "application/json")
           [] config.bodyType = "urlencoded" ->
                 HeaderSet(h, Key("content-type", "canon"),
                           "application/x-www-form-urlencoded")
           [] OTHER -> h

\* buildRequest
buildRequest(config) ==
    [method |-> config.method, scheme |-> "https", host |-> "a.test", path |-> config.path,
     header |-> applyContentType(applyAuth(applyCookies(
                    applyHeaders(EmptyHeader, config), config), config), config)]

\* buildTransport: the keys of the enabled rows, as written
HeaderOrderOf(config) ==
    LET on(r) == r.enabled /\ r.key.n # ""
        kept == SelectSeq(config.headers, on)
    IN [i \in 1..Len(kept) |-> kept[i].key]

\* buildTransport: the custom transport, when the Akamai text parses
buildTransport(text, config) ==
    [Fingerprint |-> ParseAkamaiText(text), HeaderOrder |-> HeaderOrderOf(config)]

(***************************************************************************)
(* CustomH2Transport.encodeHeaders (transport.go).                         *)
(***************************************************************************)
DefaultPseudoOrder == <<":method", ":authority", ":scheme", ":path">>

\* path := req.URL.RequestURI(); if path == "" { path = "/" }
pseudoHeaders(req) ==
    [h \in {":method", ":authority", ":scheme", ":path"} |->
        CASE h = ":method" -> req.method
          [] h = ":authority" -> req.host
          [] h = ":scheme" -> req.scheme
          [] h = ":path" -> IF req.path = "" THEN "/" ELSE req.path]

Field(name, value) == [name |-> name, value |-> value]

RECURSIVE Concat(_)
Concat(ss) == IF ss = <<>> THEN <<>> ELSE Head(ss) \o Concat(Tail(ss))

\* the pseudo-header fields, in the fingerprint's order
EncodePseudo(req, fpOrder) ==
    LET order == IF Len(fpOrder) = 0 THEN DefaultPseudoOrder ELSE fpOrder
        ph == pseudoHeaders(req)
    IN Concat([i \in 1..Len(order) |->
                  IF order[i] \in DOMAIN ph
                  THEN <<Field(Key(order[i], "lower"), ph[order[i]])>> ELSE <<>>])

\* the fields of one header key: every value, under the given name
FieldsOf(h, ck, name) ==
    LET vals == Values(h, ck)
    IN [j \in 1..Len(vals) |-> Field(name, vals[j])]

\* the ordered keys first, then `for key, vals := range req.Header`, which
\* visits the keys of the map in the order `iter`
EncodeRegular(h, headerOrder, iter) ==
    IF Len(headerOrder) > 0
    THEN LET written == {CanonicalHeaderKey(headerOrder[i]) : i \in 1..Len(headerOrder)}
                            \cap Range(h.ins)
         IN Concat([i \in 1..Len(headerOrder) |->
                       IF HasKey(h, CanonicalHeaderKey(headerOrder[i]))
                       THEN FieldsOf(h, CanonicalHeaderKey(headerOrder[i]),
                                     ToLowerKey(headerOrder[i]))
                       ELSE <<>>])
            \o Concat([i \in 1..Len(iter) |->
                       IF iter[i] \in written THEN <<>>
                       ELSE FieldsOf(h, iter[i], ToLowerKey(iter[i]))])
    ELSE Concat([i \in 1..Len(iter) |-> FieldsOf(h, iter[i], ToLowerKey(iter[i]))])

encodeHeaders(req, transport, iter) ==
    EncodePseudo(req, transport.Fingerprint.HeaderOrder)
        \o EncodeRegular(req.header, transport.HeaderOrder, iter)

\* The orders in which a map's keys can be visited: every permutation.
IterationOrders(keys) ==
    {p \in [1..Len(keys) -> Range(keys)] : \A k \in Range(keys) : \E i \in 1..Len(keys) : p[i] = k}

(***************************************************************************)
(* The inputs of the header-encoding component.                            *)
(***************************************************************************)
SeqsUpTo(S, n) == UNION {[1..k -> S] : k \in 0..n}

RowKeys == {Key("x-a", "canon"), Key("x-a", "lower"), Key("accept", "canon"), Key("", "canon")}
RowLists ==
    {rows \in SeqsUpTo([key : RowKeys, enabled : BOOLEAN], MaxRows) : TRUE}

\* header rows carry their position as value, so that rows stay distinguishable
RowValues == <<"v1", "v2", "v3", "v4", "v5">>
WithValues(rows) ==
    [i \in 1..Len(rows) |->
        [key |-> rows[i].key, enabled |-> rows[i].enabled, value |-> RowValues[i]]]

Configs ==
    {[method |-> "GET", path |-> p, headers |-> WithValues(rows), cookies |-> c,
      auth |-> a, bodyType |-> b] :
        p \in {"/x"}, rows \in RowLists, c \in {0, 1}, a \in {"none", "bearer"},
        b \in {"none", "json"}}

\* 1:65536;2:0;4:6291456;6:262144
ChromeSettings ==
    <<[colon |-> TRUE, id |-> 1, val |-> 65536], [colon |-> TRUE, id |-> 2, val |-> 0],
      [colon |-> TRUE, id |-> 4, val |-> 6291456], [colon |-> TRUE, id |-> 6, val |-> 262144]>>

OrderSections ==
    {<<"m", "a", "s", "p">>, <<"m", "s", "p", "a">>, <<" m", "a", "s", "p">>,
     <<"p", "m">>, <<"x">>, <<"m", "x", "s", "p">>, <<"m", "m", "a", "s", "p">>, <<>>}

AkamaiTextsEn ==
    {[nparts |-> n, settings |-> ChromeSettings, wu |-> 15663105, prio |-> "0", order |-> o] :
        n \in {3, 4}, o \in OrderSections}

\* configs for the Content-Type inference: rows that name Content-Type in
\* either letter case, with and without a value, and every body type
ContentTypeRows ==
    [key : {Key("content-type", "canon"), Key("content-type", "lower"), Key("x-a", "canon")},
     enabled : BOOLEAN, value : {"", "text/plain"}]
ContentTypeConfigs ==
    {[method |-> "POST", path |-> "/x", headers |-> rows, cookies |-> 0, auth |-> "none",
      bodyType |-> b] :
        rows \in SeqsUpTo(ContentTypeRows, MaxRows),
        b \in {"none", "json", "urlencoded", "raw", "form"}}

InitEn ==
    /\ enPc = "start"
    /\ enCfg \in Configs
    /\ enText \in {t \in AkamaiTextsEn : t.nparts < 4 => t.order = <<>>}
    /\ enReq = <<>>
    /\ enTransport = <<>>
    /\ enBlock = <<>>

\* Send: req, err := buildRequest(config)
BuildRequest ==
    /\ enPc = "start"
    /\ enReq' = buildRequest(enCfg)
    /\ enPc' = "built"
    /\ UNCHANGED <<enCfg, enText, enTransport, enBlock>>
    /\ UNCHANGED othersEn

\* Send: transport := c.buildTransport(config), preset "custom" with an Akamai text
BuildTransport ==
    /\ enPc = "built"
    /\ ~IsEmptyText(enText)
    /\ enTransport' = buildTransport(enText, enCfg)
    /\ enPc' = "transport"
    /\ UNCHANGED <<enCfg, enText, enReq, enBlock>>
    /\ UNCHANGED othersEn

\* RoundTrip: headerBlock, err := t.encodeHeaders(req)
EncodeHeaders ==
    /\ enPc = "transport"
    /\ \E iter \in IterationOrders(enReq.header.ins) :
          enBlock' = encodeHeaders(enReq, enTransport, iter)
    /\ enPc' = "done"
    /\ UNCHANGED <<enCfg, enText, enReq, enTransport>>
    /\ UNCHANGED othersEn

NextEn == BuildRequest \/ BuildTransport \/ EncodeHeaders

IdleEn ==
    /\ enPc = "idle" /\ enCfg = <<>> /\ enText = <<>> /\ enReq = <<>>
    /\ enTransport = <<>> /\ enBlock = <<>>

(***************************************************************************)
(* CustomH2Transport.RoundTrip: the frames it writes (transport.go).       *)
(* A frame is its type, stream, END_STREAM and ACK flags, a number (the    *)
(* window increment, the payload length or the error code) and a payload   *)
(* (the SETTINGS parameters or the header block).                          *)
(***************************************************************************)
Frame(type, stream, end, ack, n, payload) ==
    [type |-> type, stream |-> stream, end |-> end, ack |-> ack, n |-> n,
     payload |-> payload]

\* const clientPreface, written with io.WriteString(conn, clientPreface)
PrefaceWrite == <<Frame("PREFACE", 0, FALSE, FALSE, 24, <<>>)>>

\* A SETTINGS frame that keeps one parameter per id, the first.
SettingsFrameDeduplicated(fp) ==
    LET first(i) == \A j \in 1..(i - 1) : fp.Settings[j].ID # fp.Settings[i].ID
        RECURSIVE keep(_)
        keep(i) == IF i > Len(fp.Settings) THEN <<>>
                   ELSE (IF first(i) THEN <<fp.Settings[i]>> ELSE <<>>) \o keep(i + 1)
    IN [type |-> "SETTINGS", stream |-> 0, end |-> FALSE, ack |-> FALSE, n |-> 0,
        payload |-> keep(1)]

\* settings[i] = http2.Setting{ID: s.ID, Val: s.Val}; fr.WriteSettings(settings...)
SettingsFrame(fp) == Frame("SETTINGS", 0, FALSE, FALSE, 0, fp.Settings)

\* A WINDOW_UPDATE written whatever the increment is.
WindowUpdateFramesAlways(fp) ==
    <<[type |-> "WINDOW_UPDATE", stream |-> 0, end |-> FALSE, ack |-> FALSE,
       n |-> fp.WindowUpdateIncrement, payload |-> <<>>]>>

\* if t.Fingerprint.WindowUpdateIncrement > 0 { fr.WriteWindowUpdate(0, ...) }
WindowUpdateFrames(fp) ==
    IF fp.WindowUpdateIncrement > 0
    THEN <<Frame("WINDOW_UPDATE", 0, FALSE, FALSE, fp.WindowUpdateIncrement, <<>>)>>
    ELSE <<>>

\* A test that takes every request to have a body.
hasBodyAlways(req) == TRUE

\* hasBody := req.Body != nil && req.ContentLength != 0
hasBody(req) == req.bodyLen # 0

\* fr.WriteHeaders(StreamID: 1, BlockFragment, EndStream: !hasBody, EndHeaders: true)
HeadersFrame(req, block) ==
    [type |-> "HEADERS", stream |-> 1, end |-> ~hasBody(req), endHeaders |-> TRUE,
     ack |-> FALSE, n |-> 0, payload |-> block]

maxFrameSize == 16384

\* req.Body.Read(dataBuf) on the strings.Reader buildBody makes: up to
\* len(dataBuf) bytes and a nil error while bytes are left, then 0 and io.EOF.
BodyRead(remaining) ==
    [n |-> Min(maxFrameSize, remaining), eof |-> remaining = 0]

\* the DATA loop of RoundTrip
\* dataBuf[:n] after a read at an offset of the body: the bytes of the body
\* from the offset up to offset + n, written as the pair of the two positions
Slice(off, n) == <<off, off + n>>

\* the DATA loop of RoundTrip, for a body of len bytes of which some remain;
\* the frame written after the end of the body has a nil payload
RECURSIVE DataFrames(_, _)
DataFrames(len, remaining) ==
    LET r == BodyRead(remaining)
        data == Slice(len - remaining, r.n)
    IN IF r.n > 0
       THEN IF r.eof
            THEN <<Frame("DATA", 1, TRUE, FALSE, r.n, data)>>
            ELSE <<Frame("DATA", 1, FALSE, FALSE, r.n, data)>>
                     \o DataFrames(len, remaining - r.n)
       ELSE <<Frame("DATA", 1, TRUE, FALSE, 0, <<>>)>>

\* everything RoundTrip puts into writeBuf
BufferedFrames(t, req, block) ==
    <<SettingsFrame(t.Fingerprint)>> \o WindowUpdateFrames(t.Fingerprint)
        \o <<HeadersFrame(req, block)>>
        \o (IF hasBody(req) THEN DataFrames(req.bodyLen, req.bodyLen) ELSE <<>>)

(***************************************************************************)
(* readResponse: what each outcome of the read loop returns.               *)
(***************************************************************************)
maxResponseBodySize == 100 * 1024 * 1024

RespOk(resp, body) ==
    [kind |-> "resp", status |-> resp.status, fields |-> resp.fields, body |-> body,
     err |-> ""]
RespErr(e) == [kind |-> "err", status |-> 0, fields |-> 0, body |-> 0, err |-> e]

\* A read error that fails the request whether or not headers were received.
ReadErrorAlwaysFails(headersReceived, resp, body) == RespErr("read response")

\* fr.ReadFrame() failed: if headersReceived { return resp, nil } return nil, err
ReadErrorOutcome(headersReceived, resp, body) ==
    IF headersReceived THEN RespOk(resp, body) ELSE RespErr("read response")

\* resp.StatusCode after a HEADERS block: strconv.Atoi of :status (0 when it
\* is not a number); unchanged when the block has no :status
StatusAfter(resp, status) ==
    IF status = -2 THEN resp.status ELSE IF status = -1 THEN 0 ELSE status

(***************************************************************************)
(* The inputs of the transport component.                                  *)
(***************************************************************************)
\* 4:6291456;1:65536;4:1;nocolon;70000:1;3:x  (unsorted, a repeated id,
\* and three entries the parser skips)
OddSettings ==
    <<[colon |-> TRUE, id |-> 4, val |-> 6291456], [colon |-> TRUE, id |-> 1, val |-> 65536],
      [colon |-> TRUE, id |-> 4, val |-> 1], [colon |-> FALSE, id |-> -1, val |-> -1],
      [colon |-> TRUE, id |-> 70000, val |-> 1], [colon |-> TRUE, id |-> 3, val |-> -1]>>

AkamaiTextsH2 ==
    {[nparts |-> 4, settings |-> ChromeSettings, wu |-> 15663105, prio |-> "0",
      order |-> <<"m", "a", "s", "p">>],
     [nparts |-> 4, settings |-> OddSettings, wu |-> 0, prio |-> "0",
      order |-> <<"m", "s", "p", "a">>],
     [nparts |-> 1, settings |-> <<[colon |-> TRUE, id |-> 2, val |-> 0]>>, wu |-> -1,
      prio |-> "", order |-> <<>>],
     [nparts |-> 4, settings |-> <<>>, wu |-> -1, prio |-> "0", order |-> <<"x">>]}

RequestBodyLens == {0, 1, maxFrameSize, maxFrameSize + 1}

H2Config ==
    [method |-> "POST", path |-> "/x", headers |-> WithValues(<<[key |-> Key("x-a", "canon"),
     enabled |-> TRUE]>>), cookies |-> 0, auth |-> "none", bodyType |-> "raw"]

NoResp == [status |-> 0, fields |-> 0]
NoFrame == [type |-> "none", code |-> 0, id |-> 0, at |-> 0, ack |-> FALSE, data |-> <<>>]

\* the frame the loop has just read: its type, error code or payload length,
\* stream id, ACK flag and opaque data, and its position among the frames read
FrameRead(type, code, id, ack, data) ==
    [type |-> type, code |-> code, id |-> id, at |-> h2Read + 1, ack |-> ack, data |-> data]
NoSrv == [status |-> 0, body |-> 0, headers |-> FALSE, sent |-> 0, last |-> NoFrame]

InitH2 ==
    /\ h2Pc = "start"
    /\ h2Text \in AkamaiTextsH2
    /\ h2T = buildTransport(h2Text, H2Config)
    /\ \E n \in RequestBodyLens :
          h2Req = [method |-> H2Config.method, scheme |-> "https", host |-> "a.test",
                   path |-> H2Config.path, header |-> buildRequest(H2Config).header,
                   bodyLen |-> n]
    /\ h2Conn = "none"
    /\ h2Alpn = ""
    /\ h2Buf = <<>>
    /\ h2Wire = <<>>
    /\ h2Hdr = FALSE
    /\ h2Resp = NoResp
    /\ h2Body = 0
    /\ h2Read = 0
    /\ h2Ctx = "live"
    /\ h2Deadline = "unset"
    /\ h2Watcher = "none"
    /\ h2Out = [kind |-> "none"]
    /\ h2Cause = "none"
    /\ h2Srv = NoSrv

\* RoundTrip returns an error before the read loop; the connection, if there
\* is one, is closed.
FailBefore(e) ==
    /\ h2Out' = RespErr(e)
    /\ h2Conn' = IF h2Conn = "open" THEN "closed" ELSE h2Conn
    /\ h2Pc' = "done"

\* conn, err := t.DialTLSContext(...)
RT_Dial ==
    /\ h2Pc = "start"
    /\ \/ /\ h2Conn' = "open"
          /\ h2Alpn' \in {"h2", "http/1.1"}
          /\ h2Pc' = "dialed"
          /\ UNCHANGED h2Out
       \/ /\ FailBefore("dial")
          /\ UNCHANGED h2Alpn
    /\ UNCHANGED <<h2T, h2Text, h2Req, h2Buf, h2Wire, h2Hdr, h2Resp, h2Body, h2Read,
                   h2Ctx, h2Deadline, h2Watcher, h2Cause, h2Srv>>
    /\ UNCHANGED othersH2

\* io.WriteString(conn, clientPreface)
RT_WritePreface ==
    /\ h2Pc = "dialed"
    /\ \/ /\ h2Wire' = Append(h2Wire, PrefaceWrite)
          /\ h2Pc' = "preface"
          /\ UNCHANGED <<h2Out, h2Conn>>
       \/ /\ FailBefore("write preface")
          /\ UNCHANGED h2Wire
    /\ UNCHANGED <<h2T, h2Text, h2Req, h2Alpn, h2Buf, h2Hdr, h2Resp, h2Body, h2Read,
                   h2Ctx, h2Deadline, h2Watcher, h2Cause, h2Srv>>
    /\ UNCHANGED othersH2

\* SETTINGS, WINDOW_UPDATE, HEADERS and DATA go into writeBuf
RT_BufferFrames ==
    /\ h2Pc = "preface"
    /\ \E iter \in IterationOrders(h2Req.header.ins) :
          h2Buf' = BufferedFrames(h2T, h2Req, encodeHeaders(h2Req, h2T, iter))
    /\ h2Pc' = "buffered"
    /\ UNCHANGED <<h2T, h2Text, h2Req, h2Conn, h2Alpn, h2Wire, h2Hdr, h2Resp, h2Body,
                   h2Read, h2Ctx, h2Deadline, h2Watcher, h2Out, h2Cause, h2Srv>>
    /\ UNCHANGED othersH2

\* conn.Write(writeBuf.Bytes()), then readResponse sets the read deadline and
\* starts the goroutine that watches the context
RT_Flush ==
    /\ h2Pc = "buffered"
    /\ \/ /\ h2Wire' = Append(h2Wire, h2Buf)
          /\ h2Pc' = "read"
          /\ h2Deadline' = "future"
          /\ h2Watcher' = "waiting"
          /\ UNCHANGED <<h2Out, h2Conn>>
       \/ /\ FailBefore("flush frames")
          /\ UNCHANGED <<h2Wire, h2Deadline, h2Watcher>>
    /\ UNCHANGED <<h2T, h2Text, h2Req, h2Alpn, h2Buf, h2Hdr, h2Resp, h2Body, h2Read,
                   h2Ctx, h2Cause, h2Srv>>
    /\ UNCHANGED othersH2

(***************************************************************************)
(* readResponse: the read loop.                                            *)
(***************************************************************************)
\* ReadFrame can return a frame: the deadline has not passed, the server
\* speaks HTTP/2 and has frames left to send.
CanRead ==
    /\ h2Pc = "read"
    /\ h2Deadline = "future"
    /\ h2Alpn = "h2"
    /\ h2Read < MaxFrames

\* readResponse returns, RoundTrip with it: close(done) ends the watcher; on
\* an error RoundTrip closes the connection.
Return(out, cause) ==
    /\ h2Out' = out
    /\ h2Cause' = cause
    /\ h2Conn' = IF out.kind = "err" THEN "closed" ELSE h2Conn
    /\ h2Watcher' = "exited"
    /\ h2Pc' = "done"

Continue == UNCHANGED <<h2Out, h2Cause, h2Conn, h2Watcher, h2Pc>>

h2Fixed == <<h2T, h2Text, h2Req, h2Alpn, h2Buf>>

\* case *http2.HeadersFrame
ReadHeaders ==
    /\ CanRead
    /\ \E stream \in {1, 3}, end \in BOOLEAN, status \in {200, 404, -1, -2}, bad \in BOOLEAN :
          /\ bad => (status = 200 /\ ~end)
          /\ h2Read' = h2Read + 1
          /\ IF stream # 1
             THEN Continue /\ UNCHANGED <<h2Hdr, h2Resp, h2Srv>>
             ELSE IF bad
             THEN /\ Return(RespErr("decode headers"), "decode")
                  /\ UNCHANGED <<h2Hdr, h2Resp, h2Srv>>
             ELSE /\ h2Resp' = [status |-> StatusAfter(h2Resp, status),
                                fields |-> h2Resp.fields + 1]
                  /\ h2Hdr' = TRUE
                  /\ h2Srv' = [h2Srv EXCEPT !.headers = TRUE,
                                            !.status = IF status = -2 THEN @ ELSE status]
                  /\ IF end
                     THEN Return(RespOk(h2Resp', h2Body), "end_stream")
                     ELSE Continue
    /\ UNCHANGED <<h2Body, h2Wire, h2Ctx, h2Deadline>>
    /\ UNCHANGED h2Fixed
    /\ UNCHANGED othersH2

\* A limit check that already refuses a body that reaches the limit.
BodyTooLargeAtLimit(have, n) == have + n >= maxResponseBodySize

\* if bodyBuf.Len()+len(f.Data()) > maxResponseBodySize
BodyTooLarge(have, n) == have + n > maxResponseBodySize

\* Credit that is returned to the connection only.
CreditFramesConnOnly(n) ==
    IF n > 0 THEN <<<<Frame("WINDOW_UPDATE", 0, FALSE, FALSE, n, <<>>)>>>> ELSE <<>>

\* if n := len(f.Data()); n > 0 { fr.WriteWindowUpdate(0, uint32(n));
\* fr.WriteWindowUpdate(streamID, uint32(n)) }: the writes, one per frame
CreditFrames(n) ==
    IF n > 0
    THEN <<<<Frame("WINDOW_UPDATE", 0, FALSE, FALSE, n, <<>>)>>,
           <<Frame("WINDOW_UPDATE", 1, FALSE, FALSE, n, <<>>)>>>>
    ELSE <<>>

\* case *http2.DataFrame, for one frame: its stream, END_STREAM and length
DataFrame(stream, end, n) ==
    /\ h2Read' = h2Read + 1
    /\ IF stream # 1
       THEN /\ Continue
            /\ h2Srv' = [h2Srv EXCEPT !.last = FrameRead("DATA", n, stream, FALSE, <<>>)]
            /\ UNCHANGED <<h2Body, h2Wire>>
       ELSE IF BodyTooLarge(h2Body, n)
       THEN /\ Return(RespErr("response body exceeds limit"), "too_large")
            /\ h2Srv' = [h2Srv EXCEPT !.sent = @ + n,
                                      !.last = FrameRead("DATA", n, stream, FALSE, <<>>)]
            /\ UNCHANGED <<h2Body, h2Wire>>
       ELSE /\ h2Body' = h2Body + n
            /\ h2Srv' = [h2Srv EXCEPT !.body = @ + n, !.sent = @ + n,
                                      !.last = FrameRead("DATA", n, stream, FALSE, <<>>)]
            /\ h2Wire' = h2Wire \o CreditFrames(n)
            /\ IF end
               THEN Return(RespOk(h2Resp, h2Body'), "end_stream")
               ELSE Continue
    /\ UNCHANGED <<h2Hdr, h2Resp, h2Ctx, h2Deadline>>
    /\ UNCHANGED h2Fixed
    /\ UNCHANGED othersH2

\* case *http2.DataFrame
ReadData ==
    /\ CanRead
    /\ \E stream \in {1, 3}, end \in BOOLEAN, n \in {0, 5} : DataFrame(stream, end, n)

\* fr.SetMaxReadFrameSize(1 << 24): the longest frame ReadFrame accepts
maxReadFrameSize == 16 * 1024 * 1024

\* the DATA frame lengths of a server that sends a body near the limit
BulkSizes == {0, maxReadFrameSize, 4 * 1024 * 1024, 4 * 1024 * 1024 + 1}

\* case *http2.DataFrame, for the frames of a long body on stream 1
ReadBulkData ==
    /\ h2Pc = "read"
    /\ h2Deadline = "future"
    /\ h2Alpn = "h2"
    /\ h2Read < MaxBulkFrames
    /\ \E end \in BOOLEAN, n \in BulkSizes : DataFrame(1, end, n)

\* fr.WriteSettingsAck()
SettingsAck == Frame("SETTINGS", 0, FALSE, TRUE, 0, <<>>)

\* case *http2.SettingsFrame
ReadSettings ==
    /\ CanRead
    /\ \E ack \in BOOLEAN :
          /\ h2Wire' = IF ~ack THEN Append(h2Wire, <<SettingsAck>>) ELSE h2Wire
          /\ h2Srv' = [h2Srv EXCEPT !.last = FrameRead("SETTINGS", 0, 0, ack, <<>>)]
    /\ h2Read' = h2Read + 1
    /\ Continue
    /\ UNCHANGED <<h2Hdr, h2Resp, h2Body, h2Ctx, h2Deadline>>
    /\ UNCHANGED h2Fixed
    /\ UNCHANGED othersH2

\* the 8 bytes of opaque data a PING frame carries
PingData == {<<0, 0, 0, 0, 0, 0, 0, 0>>, <<1, 2, 3, 4, 5, 6, 7, 8>>}

\* A PING ACK that carries zeroes whatever the PING carried.
PingAckZeroes(data) == Frame("PING", 0, FALSE, TRUE, 8, <<0, 0, 0, 0, 0, 0, 0, 0>>)

\* fr.WritePing(true, f.Data)
PingAck(data) == Frame("PING", 0, FALSE, TRUE, Len(data), data)

\* case *http2.PingFrame
ReadPing ==
    /\ CanRead
    /\ \E ack \in BOOLEAN, data \in PingData :
          /\ h2Wire' = IF ~ack THEN Append(h2Wire, <<PingAck(data)>>) ELSE h2Wire
          /\ h2Srv' = [h2Srv EXCEPT !.last = FrameRead("PING", 0, 0, ack, data)]
    /\ h2Read' = h2Read + 1
    /\ Continue
    /\ UNCHANGED <<h2Hdr, h2Resp, h2Body, h2Ctx, h2Deadline>>
    /\ UNCHANGED h2Fixed
    /\ UNCHANGED othersH2

\* case *http2.WindowUpdateFrame, and the frame types the switch does not name
ReadIgnored ==
    /\ CanRead
    /\ h2Read' = h2Read + 1
    /\ Continue
    /\ UNCHANGED <<h2Hdr, h2Resp, h2Body, h2Wire, h2Ctx, h2Deadline, h2Srv>>
    /\ UNCHANGED h2Fixed
    /\ UNCHANGED othersH2

\* fmt.Errorf("GOAWAY: %v", f.ErrCode), fmt.Errorf("RST_STREAM: %v", f.ErrCode)
ErrorOf(frame, code) ==
    CASE frame = "GOAWAY" /\ code = 0 -> "GOAWAY: NO_ERROR"
      [] frame = "GOAWAY" /\ code = 2 -> "GOAWAY: INTERNAL_ERROR"
      [] frame = "RST_STREAM" /\ code = 2 -> "RST_STREAM: INTERNAL_ERROR"
      [] frame = "RST_STREAM" /\ code = 8 -> "RST_STREAM: CANCEL"

\* A GOAWAY test that does not look at the last stream id.
GoAwayContinuesAnyStream(code, last) == code = 0

\* if f.ErrCode == http2.ErrCodeNo && f.LastStreamID >= streamID { continue }
GoAwayContinues(code, last) == code = 0 /\ last >= 1

\* An RST_STREAM test that takes every stream for the request's.
RstOnAnyStream(stream) == TRUE

\* if f.StreamID == streamID
RstIsOurs(stream) == stream = 1

\* case *http2.GoAwayFrame
ReadGoAway ==
    /\ CanRead
    /\ \E code \in {0, 2}, last \in {0, 1} :
          /\ IF h2Hdr
             THEN Return(RespOk(h2Resp, h2Body), "goaway")
             ELSE IF GoAwayContinues(code, last)
             THEN Continue
             ELSE Return(RespErr(ErrorOf("GOAWAY", code)), "goaway")
          /\ h2Srv' = [h2Srv EXCEPT !.last = FrameRead("GOAWAY", code, last, FALSE, <<>>)]
    /\ h2Read' = h2Read + 1
    /\ UNCHANGED <<h2Hdr, h2Resp, h2Body, h2Wire, h2Ctx, h2Deadline>>
    /\ UNCHANGED h2Fixed
    /\ UNCHANGED othersH2

\* case *http2.RSTStreamFrame
ReadRstStream ==
    /\ CanRead
    /\ \E stream \in {1, 3}, code \in {2, 8} :
          /\ IF RstIsOurs(stream)
             THEN IF h2Hdr
                  THEN Return(RespOk(h2Resp, h2Body), "rst")
                  ELSE Return(RespErr(ErrorOf("RST_STREAM", code)), "rst")
             ELSE Continue
          /\ h2Srv' = [h2Srv EXCEPT !.last = FrameRead("RST_STREAM", code, stream, FALSE, <<>>)]
    /\ h2Read' = h2Read + 1
    /\ UNCHANGED <<h2Hdr, h2Resp, h2Body, h2Wire, h2Ctx, h2Deadline>>
    /\ UNCHANGED h2Fixed
    /\ UNCHANGED othersH2

\* ReadFrame fails because the connection ended: EOF, a reset, or bytes that
\* are no HTTP/2 frame
ReadEOF ==
    /\ h2Pc = "read"
    /\ h2Deadline = "future"
    /\ Return(ReadErrorOutcome(h2Hdr, h2Resp, h2Body), "eof")
    /\ UNCHANGED <<h2Hdr, h2Resp, h2Body, h2Read, h2Wire, h2Ctx, h2Deadline, h2Srv>>
    /\ UNCHANGED h2Fixed
    /\ UNCHANGED othersH2

\* ReadFrame fails because the read deadline has passed
ReadTimeout ==
    /\ h2Pc = "read"
    /\ h2Deadline = "now"
    /\ Return(ReadErrorOutcome(h2Hdr, h2Resp, h2Body), "timeout")
    /\ UNCHANGED <<h2Hdr, h2Resp, h2Body, h2Read, h2Wire, h2Ctx, h2Deadline, h2Srv>>
    /\ UNCHANGED h2Fixed
    /\ UNCHANGED othersH2

\* the caller cancels the context, or the context's deadline passes
CtxCancel ==
    /\ h2Pc = "read"
    /\ h2Ctx = "live"
    /\ h2Ctx' = "cancelled"
    /\ UNCHANGED <<h2Pc, h2Conn, h2Wire, h2Hdr, h2Resp, h2Body, h2Read, h2Deadline,
                   h2Watcher, h2Out, h2Cause, h2Srv>>
    /\ UNCHANGED h2Fixed
    /\ UNCHANGED othersH2

\* the watcher goroutine: case <-ctx.Done(): conn.SetReadDeadline(time.Now())
WatcherFire ==
    /\ h2Watcher = "waiting"
    /\ h2Ctx = "cancelled"
    /\ h2Deadline' = "now"
    /\ h2Watcher' = "fired"
    /\ UNCHANGED <<h2Pc, h2Conn, h2Wire, h2Hdr, h2Resp, h2Body, h2Read, h2Ctx, h2Out,
                   h2Cause, h2Srv>>
    /\ UNCHANGED h2Fixed
    /\ UNCHANGED othersH2

\* the read deadline set from the context's deadline (or the 30 s default)
\* passes while the loop is reading
DeadlinePasses ==
    /\ h2Pc = "read"
    /\ h2Deadline = "future"
    /\ h2Deadline' = "now"
    /\ UNCHANGED <<h2Pc, h2Conn, h2Wire, h2Hdr, h2Resp, h2Body, h2Read, h2Ctx, h2Watcher,
                   h2Out, h2Cause, h2Srv>>
    /\ UNCHANGED h2Fixed
    /\ UNCHANGED othersH2

NextH2 ==
    \/ RT_Dial \/ RT_WritePreface \/ RT_BufferFrames \/ RT_Flush
    \/ ReadHeaders \/ ReadData \/ ReadSettings \/ ReadPing \/ ReadIgnored
    \/ ReadGoAway \/ ReadRstStream \/ ReadEOF \/ ReadTimeout
    \/ CtxCancel \/ WatcherFire \/ DeadlinePasses

\* The read loop when the server sends HEADERS and a long body.
NextH2Bulk ==
    \/ RT_Dial \/ RT_WritePreface \/ RT_BufferFrames \/ RT_Flush
    \/ ReadHeaders \/ ReadBulkData

IdleH2 ==
    /\ h2Pc = "idle" /\ h2T = <<>> /\ h2Text = <<>> /\ h2Req = <<>> /\ h2Conn = "none"
    /\ h2Alpn = "" /\ h2Buf = <<>> /\ h2Wire = <<>> /\ h2Hdr = FALSE /\ h2Resp = <<>>
    /\ h2Body = 0 /\ h2Read = 0 /\ h2Ctx = "live" /\ h2Deadline = "unset"
    /\ h2Watcher = "none" /\ h2Out = <<>> /\ h2Cause = "none" /\ h2Srv = <<>>

(***************************************************************************)
(* h2FallbackTransport.RoundTrip (part_010).  A transport's result is a    *)
(* response (code = its status) or an error (code = which error).          *)
(***************************************************************************)
NoResult == [kind |-> "none", code |-> 0]
TransportResults ==
    {[kind |-> "resp", code |-> c] : c \in {200, 404}}
        \cup {[kind |-> "err", code |-> c] : c \in {1, 2}}

FbRequests == [scheme : {"http", "https"}, host : {"a.test", "b.test"},
               method : {"GET", "POST"}]

\* A transport that tries HTTP/2 whatever the scheme is.
TriesH2Always(req) == TRUE

\* if req.URL.Scheme == "https"
TriesH2(req) == req.scheme = "https"

InitFb ==
    /\ fbPc = "ready"
    /\ fbReq = [scheme |-> "", host |-> "", method |-> ""]
    /\ fbLog = <<>>
    /\ fbH2Res = NoResult
    /\ fbH1Res = NoResult
    /\ fbOut = NoResult
    /\ fbN = 0

\* RoundTrip is called (once per hop of a redirect chain): it calls
\* t.h2.RoundTrip for https and t.h1.RoundTrip otherwise
FB_RoundTrip ==
    /\ fbPc \in {"ready", "done"}
    /\ fbN < MaxRequests
    /\ \E req \in FbRequests :
          /\ fbReq' = req
          /\ IF TriesH2(req)
             THEN fbPc' = "h2" /\ fbLog' = <<"h2.RoundTrip">>
             ELSE fbPc' = "h1" /\ fbLog' = <<"h1.RoundTrip">>
    /\ fbH2Res' = NoResult
    /\ fbH1Res' = NoResult
    /\ fbOut' = NoResult
    /\ fbN' = fbN + 1
    /\ UNCHANGED othersFb

\* t.h2.RoundTrip returns: a response is returned to the caller; after an
\* error the idle connections are closed and t.h1.RoundTrip is called
FB_H2Returns ==
    /\ fbPc = "h2"
    /\ \E res \in TransportResults :
          /\ fbH2Res' = res
          /\ IF res.kind # "err"
             THEN /\ fbOut' = res
                  /\ fbPc' = "done"
                  /\ UNCHANGED fbLog
             ELSE /\ fbLog' = fbLog \o <<"h2.CloseIdleConnections", "h1.RoundTrip">>
                  /\ fbPc' = "h1"
                  /\ UNCHANGED fbOut
    /\ UNCHANGED <<fbReq, fbH1Res, fbN>>
    /\ UNCHANGED othersFb

\* return t.h1.RoundTrip(req)
FB_H1Returns ==
    /\ fbPc = "h1"
    /\ \E res \in TransportResults :
          /\ fbH1Res' = res
          /\ fbOut' = res
    /\ fbPc' = "done"
    /\ UNCHANGED <<fbReq, fbLog, fbH2Res, fbN>>
    /\ UNCHANGED othersFb

NextFb == FB_RoundTrip \/ FB_H2Returns \/ FB_H1Returns

IdleFb ==
    /\ fbPc = "idle" /\ fbReq = <<>> /\ fbLog = <<>> /\ fbH2Res = <<>> /\ fbH1Res = <<>>
    /\ fbOut = <<>> /\ fbN = 0

(***************************************************************************)
(* The Params tab: the request store (request-store.ts), the URL bar       *)
(* (part_001) and the engine's buildURL (part_011).  A URL is the part     *)
(* before its query and the list of its query pairs.                       *)
(***************************************************************************)
ParamKeys == {"", "page", "limit"}
ParamValues == {"", "1", "10"}
ParamRows == [key : ParamKeys, value : ParamValues, enabled : BOOLEAN]

Pair(k, v) == [k |-> k, v |-> v]

\* emptyKv()
emptyKv == [key |-> "", value |-> "", enabled |-> TRUE]

\* buildUrlFromParams: the query is cleared, then every enabled row with a
\* key is appended (the catch branch for an unparseable base builds the same
\* query by hand)
buildUrlFromParams(url, params) ==
    LET on(p) == p.enabled /\ p.key # ""
        kept == SelectSeq(params, on)
    IN [base |-> url.base, query |-> [i \in 1..Len(kept) |-> Pair(kept[i].key, kept[i].value)]]

\* the rows the URL bar makes of url.searchParams.entries()
RowsOfQuery(query) ==
    [i \in 1..Len(query) |-> [key |-> query[i].k, value |-> query[i].v, enabled |-> TRUE]]

\* url.Values.Encode sorts by key; the values of one key keep their order
KeyRank(k) == CASE k = "" -> 0 [] k = "limit" -> 1 [] k = "page" -> 2
SortedKeys == <<"", "limit", "page">>
Encode(q) ==
    Concat([i \in 1..Len(SortedKeys) |->
               LET has(x) == x.k = SortedKeys[i] IN SelectSeq(q, has)])

\* buildURL: q := u.Query(); q.Add(p.Key, p.Value) for every enabled row with
\* a key; u.RawQuery = q.Encode()
buildURL(config) ==
    LET on(p) == p.enabled /\ p.key # ""
        kept == SelectSeq(config.params, on)
        q == config.url.query \o [i \in 1..Len(kept) |-> Pair(kept[i].key, kept[i].value)]
    IN [base |-> config.url.base, query |-> Encode(q)]

TypedQueries ==
    {<<>>, <<Pair("page", "1")>>, <<Pair("page", "1"), Pair("limit", "10")>>}

NotSent == [sent |-> FALSE, query |-> <<>>]

\* defaultRequest(): url '' and no params
InitSt ==
    /\ stUrl = [base |-> "", query |-> <<>>]
    /\ stParams = <<>>
    /\ stSent = NotSent

\* the URL bar's onChange: store.setUrl(newUrl), then setParamsFromUrl with
\* the entries of the typed URL's query
TypeUrl ==
    /\ \E q \in TypedQueries :
          /\ stUrl' = [base |-> "https://a.test/x", query |-> q]
          /\ stParams' = RowsOfQuery(q)
    /\ stSent' = NotSent
    /\ UNCHANGED othersSt

\* addParam
AddParam ==
    /\ Len(stParams) < MaxParams
    /\ stParams' = Append(stParams, emptyKv)
    /\ stSent' = NotSent
    /\ UNCHANGED stUrl
    /\ UNCHANGED othersSt

\* updateParam(id, field, val): the row is changed and, unless the field is
\* the note, the URL is rebuilt from the rows
UpdateParam ==
    /\ \E i \in 1..Len(stParams), field \in {"key", "value", "enabled", "note"} :
          /\ \/ /\ field = "key"
                /\ \E v \in ParamKeys : stParams' = [stParams EXCEPT ![i].key = v]
             \/ /\ field = "value"
                /\ \E v \in ParamValues : stParams' = [stParams EXCEPT ![i].value = v]
             \/ /\ field = "enabled"
                /\ \E v \in BOOLEAN : stParams' = [stParams EXCEPT ![i].enabled = v]
             \/ /\ field = "note"
                /\ stParams' = stParams
          /\ stUrl' = IF field # "note" THEN buildUrlFromParams(stUrl, stParams')
                      ELSE stUrl
    /\ stSent' = NotSent
    /\ UNCHANGED othersSt

\* removeParam(id)
RemoveParam ==
    /\ \E i \in 1..Len(stParams) :
          stParams' = [j \in 1..(Len(stParams) - 1) |->
                          IF j < i THEN stParams[j] ELSE stParams[j + 1]]
    /\ stUrl' = buildUrlFromParams(stUrl, stParams')
    /\ stSent' = NotSent
    /\ UNCHANGED othersSt

\* the Send button (validateUrl passed): the store snapshots t.request, the
\* bridge passes it as JSON to App.SendRequest, Send builds the URL
SendRequest ==
    /\ stUrl.base # ""
    /\ ~stSent.sent
    /\ stSent' = [sent |-> TRUE,
                  query |-> buildURL([url |-> stUrl, params |-> stParams]).query]
    /\ UNCHANGED <<stUrl, stParams>>
    /\ UNCHANGED othersSt

NextSt == TypeUrl \/ AddParam \/ UpdateParam \/ RemoveParam \/ SendRequest

IdleSt == stUrl = <<>> /\ stParams = <<>> /\ stSent = <<>>

(***************************************************************************)
(* loggedConn (redirect.go): Read and Write call the wrapped connection    *)
(* and then, under the mutex, append an entry stamped with the time since  *)
(* start.  One goroutine reads, another writes.                            *)
(***************************************************************************)
Goroutines == {"reader", "writer"}
DirectionOf(g) == IF g = "reader" THEN "recv" ELSE "send"

Idle == [pc |-> "idle", id |-> 0, ret |-> 0]

\* An entry stamped with the time at which the wrapped call returned.
EntryTimeAtReturn(ret, now) == ret

\* elapsed: time.Since(c.start), evaluated while the mutex is held
EntryTime(ret, now) == now

InitTp ==
    /\ tpClock = 0
    /\ tpWire = <<>>
    /\ tpEntries = <<>>
    /\ tpG = [g \in Goroutines |-> Idle]
    /\ tpSnap = <<>>
    /\ tpOps = 0

\* n, err := c.Conn.Read(b) / c.Conn.Write(b) returns; with n = 0 nothing is
\* recorded and the call returns at once
ConnReturns ==
    /\ tpOps < MaxOps
    /\ \E g \in Goroutines, n \in {0, 1} :
          /\ tpG[g].pc = "idle"
          /\ IF n > 0
             THEN /\ tpWire' = Append(tpWire, [direction |-> DirectionOf(g), data |-> tpOps + 1])
                  /\ tpG' = [tpG EXCEPT ![g] = [pc |-> "returned", id |-> tpOps + 1,
                                                ret |-> tpClock]]
             ELSE UNCHANGED <<tpWire, tpG>>
    /\ tpOps' = tpOps + 1
    /\ UNCHANGED <<tpClock, tpEntries, tpSnap>>
    /\ UNCHANGED othersTp

\* c.mu.Lock(); c.entries = append(c.entries, connEntry{...}); c.mu.Unlock()
Record ==
    /\ \E g \in Goroutines :
          /\ tpG[g].pc = "returned"
          /\ tpEntries' = Append(tpEntries,
                 [elapsed |-> EntryTime(tpG[g].ret, tpClock),
                  direction |-> DirectionOf(g), data |-> tpG[g].id])
          /\ tpG' = [tpG EXCEPT ![g] = Idle]
    /\ UNCHANGED <<tpClock, tpWire, tpSnap, tpOps>>
    /\ UNCHANGED othersTp

\* the monotonic clock advances
Tick ==
    /\ tpClock < MaxTicks
    /\ tpClock' = tpClock + 1
    /\ UNCHANGED <<tpWire, tpEntries, tpG, tpSnap, tpOps>>
    /\ UNCHANGED othersTp

\* getEntries: under the mutex, a copy of c.entries
GetEntries ==
    /\ tpSnap # tpEntries
    /\ tpSnap' = tpEntries
    /\ UNCHANGED <<tpClock, tpWire, tpEntries, tpG, tpOps>>
    /\ UNCHANGED othersTp

NextTp == ConnReturns \/ Record \/ Tick \/ GetEntries

IdleTp ==
    /\ tpClock = 0 /\ tpWire = <<>> /\ tpEntries = <<>> /\ tpG = <<>> /\ tpSnap = <<>>
    /\ tpOps = 0

(***************************************************************************)
(* mergeConnEntries (redirect.go).                                         *)
(***************************************************************************)
\* the logs a connection can hold: timestamps in recorded order, each entry
\* with its own data
EntryLists ==
    {es \in SeqsUpTo([elapsed : 0..1, direction : {"send", "recv"}, data : {0}], MaxEntries) :
        \A i \in 1..(Len(es) - 1) : es[i].elapsed <= es[i + 1].elapsed}

Tagged(es, c) == [i \in 1..Len(es) |-> [es[i] EXCEPT !.data = 10 * c + i]]

\* merged = append(merged, connEntry{elapsed: e.elapsed + offset, ...}) over
\* the connections in order, offset := conn.start.Sub(base)
Shifted(conns) ==
    Concat([c \in 1..Len(conns) |->
               [i \in 1..Len(conns[c].entries) |->
                   [conns[c].entries[i] EXCEPT
                       !.elapsed = @ + (conns[c].start - conns[1].start)]]])

\* sort.Slice with less = elapsed <: some ordering by elapsed; the order of
\* entries with equal elapsed is not specified
SortSlice(list) ==
    {[i \in 1..Len(list) |-> list[p[i]]] :
        p \in {q \in [1..Len(list) -> 1..Len(list)] :
                  /\ \A i, j \in 1..Len(list) : i # j => q[i] # q[j]
                  /\ \A i \in 1..(Len(list) - 1) :
                        list[q[i]].elapsed <= list[q[i + 1]].elapsed}}

\* the connections of one Send, in the order they were dialled
InitMg ==
    /\ mgPc = "start"
    /\ \E a \in EntryLists :
          \/ mgConns = <<[start |-> 0, entries |-> Tagged(a, 1)]>>
          \/ \E b \in EntryLists, st \in 0..1 :
                mgConns = <<[start |-> 0, entries |-> Tagged(a, 1)],
                            [start |-> st, entries |-> Tagged(b, 2)]>>
    /\ mgOut = <<>>

\* entries := mergeConnEntries(connLogs)
MergeConnEntries ==
    /\ mgPc = "start"
    /\ mgOut' \in SortSlice(Shifted(mgConns))
    /\ mgPc' = "done"
    /\ UNCHANGED mgConns
    /\ UNCHANGED othersMg

NextMg == MergeConnEntries

IdleMg == mgPc = "idle" /\ mgConns = <<>> /\ mgOut = <<>>

(***************************************************************************)
(* BuildSpecFromJA3 and mapExtensionIDs (fingerprint.go), isGREASE         *)
(* (part_009).  An extension is the utls type that was built and the       *)
(* extension id that type puts in the ClientHello.                         *)
(***************************************************************************)
\* An isGREASE that knows the first GREASE value only.
isGREASEFirstOnly(value) == value = 2570

\* isGREASE: 0x0a0a, 0x1a1a, ..., 0xfafa
isGREASE(value) ==
    value \in {2570, 6682, 10794, 14906, 19018, 23130, 27242, 31354,
               35466, 39578, 43690, 47802, 51914, 56026, 60138, 64250}

\* the cases of the switch in mapExtensionIDs
KnownExtensions ==
    [id \in {0, 5, 10, 11, 13, 16, 17, 18, 21, 23, 27, 35, 43, 45, 51, 65281, 17513,
             17613, 65037} |->
        CASE id = 0 -> "SNIExtension"
          [] id = 5 -> "StatusRequestExtension"
          [] id = 10 -> "SupportedCurvesExtension"
          [] id = 11 -> "SupportedPointsExtension"
          [] id = 13 -> "SignatureAlgorithmsExtension"
          [] id = 16 -> "ALPNExtension"
          [] id = 17 -> "StatusRequestV2Extension"
          [] id = 18 -> "SCTExtension"
          [] id = 21 -> "UtlsPaddingExtension"
          [] id = 23 -> "ExtendedMasterSecretExtension"
          [] id = 27 -> "UtlsCompressCertExtension"
          [] id = 35 -> "SessionTicketExtension"
          [] id = 43 -> "SupportedVersionsExtension"
          [] id = 45 -> "PSKKeyExchangeModesExtension"
          [] id = 51 -> "KeyShareExtension"
          [] id = 65281 -> "RenegotiationInfoExtension"
          [] id = 17513 -> "ApplicationSettingsExtension"
          [] id = 17613 -> "ApplicationSettingsExtensionNew"
          [] id = 65037 -> "GREASEEncryptedClientHelloExtension"]

\* the extension id each utls type writes
ExtensionId ==
    [t \in {KnownExtensions[id] : id \in DOMAIN KnownExtensions} |->
        CHOOSE id \in DOMAIN KnownExtensions : KnownExtensions[id] = t]

Extension(type, id) == [type |-> type, id |-> id]
GreaseExtension == Extension("UtlsGREASEExtension", 2570)

\* mapExtensionIDs: one extension per id, in order; GREASE ids are skipped,
\* other unknown ids become a GenericExtension
mapExtensionIDs(parsed) ==
    Concat([i \in 1..Len(parsed.Extensions) |->
               LET extID == parsed.Extensions[i]
               IN IF extID \in DOMAIN KnownExtensions
                  THEN <<Extension(KnownExtensions[extID], ExtensionId[KnownExtensions[extID]])>>
                  ELSE IF isGREASE(extID) THEN <<>>
                  ELSE <<Extension("GenericExtension", extID)>>])

\* greaseExtensions: a GREASE extension, the mapped extensions, a GREASE extension
WithGrease(extensions) == <<GreaseExtension>> \o extensions \o <<GreaseExtension>>

\* utls.ShuffleChromeTLSExtensions: a permutation that leaves GREASE and
\* padding extensions where they are
Fixed(e) == e.type \in {"UtlsGREASEExtension", "UtlsPaddingExtension"}
ShuffleChromeTLSExtensions(exts) ==
    {[i \in 1..Len(exts) |-> exts[p[i]]] :
        p \in {q \in [1..Len(exts) -> 1..Len(exts)] :
                  /\ \A i, j \in 1..Len(exts) : i # j => q[i] # q[j]
                  /\ \A i \in 1..Len(exts) : Fixed(exts[i]) => q[i] = i}}

\* extension ids of the JA3 texts: known ones, unknown ones, GREASE values
JA3ExtensionIds == {0, 10, 21, 43, 65037, 41, 2570, 64250}

InitJa ==
    /\ jaPc = "start"
    /\ jaParsed \in [Extensions : SeqsUpTo(JA3ExtensionIds, MaxExts)]
    /\ jaGrease = <<>>
    /\ jaSpec = <<>>

\* spec = BuildSpecFromJA3(parsed)
BuildSpecFromJA3 ==
    /\ jaPc = "start"
    /\ jaGrease' = WithGrease(mapExtensionIDs(jaParsed))
    /\ jaSpec' \in ShuffleChromeTLSExtensions(jaGrease')
    /\ jaPc' = "done"
    /\ UNCHANGED jaParsed
    /\ UNCHANGED othersJa

NextJa == BuildSpecFromJA3

IdleJa == jaPc = "idle" /\ jaParsed = <<>> /\ jaGrease = <<>> /\ jaSpec = <<>>

(***************************************************************************)
(* httpProxyDialer.DialContext (request.go).  The proxy's reply is its     *)
(* status; `sent` is what the proxy sends after the blank line that ends   *)
(* the reply headers.  br is a bufio.Reader on conn: a read that br makes  *)
(* takes whatever conn has, so bytes after the blank line that arrive with *)
(* the reply end up in br's buffer.                                        *)
(***************************************************************************)
ProxyStatuses == {200, 204, 407, 502}
TunnelBytes == {1, 2}
NoReturn == [conn |-> FALSE, err |-> ""]
NoConnect == [sent |-> FALSE, auth |-> FALSE]

InitPx ==
    /\ pxPc = "start"
    /\ pxD \in [auth : {"nil", "nouser", "user"}]
    /\ pxProxy \in [status : ProxyStatuses, sent : SeqsUpTo(TunnelBytes, MaxTunnel)]
    /\ pxReq = NoConnect
    /\ pxConn = "none"
    /\ pxSock = <<>>
    /\ pxBr = <<>>
    /\ pxRet = NoReturn
    /\ pxGot = <<>>

\* return nil, err
ReturnsError(err) ==
    /\ pxRet' = [conn |-> FALSE, err |-> err]
    /\ pxPc' = "done"

\* dialer.DialContext(ctx, "tcp", d.proxyAddr)
DialProxy ==
    /\ pxPc = "start"
    /\ \/ /\ pxConn' = "open"
          /\ pxPc' = "dialed"
          /\ UNCHANGED pxRet
       \/ /\ ReturnsError("failed to connect to proxy")
          /\ UNCHANGED pxConn
    /\ UNCHANGED <<pxD, pxProxy, pxReq, pxSock, pxBr, pxGot>>
    /\ UNCHANGED othersPx

\* connectReq.Write(conn), Proxy-Authorization set when a user name is configured
WriteConnect ==
    /\ pxPc = "dialed"
    /\ \/ /\ pxReq' = [sent |-> TRUE, auth |-> pxD.auth = "user"]
          /\ pxSock' = pxProxy.sent
          /\ pxPc' = "written"
          /\ UNCHANGED <<pxConn, pxRet>>
       \/ /\ pxConn' = "closed"
          /\ ReturnsError("failed to write CONNECT request")
          /\ UNCHANGED <<pxReq, pxSock>>
    /\ UNCHANGED <<pxD, pxProxy, pxBr, pxGot>>
    /\ UNCHANGED othersPx

\* http.ReadResponse(br, connectReq), the status check and the return of conn.
\* The read that brings the end of the reply headers brings k bytes more.
ReadConnectResponse ==
    /\ pxPc = "written"
    /\ \/ /\ pxConn' = "closed"
          /\ ReturnsError("failed to read CONNECT response")
          /\ UNCHANGED <<pxSock, pxBr>>
       \/ \E k \in 0..Len(pxSock) :
             /\ pxBr' = SubSeq(pxSock, 1, k)
             /\ pxSock' = SubSeq(pxSock, k + 1, Len(pxSock))
             /\ IF pxProxy.status # 200
                THEN /\ pxConn' = "closed"
                     /\ ReturnsError("proxy CONNECT failed")
                ELSE /\ pxRet' = [conn |-> TRUE, err |-> ""]
                     /\ pxPc' = "done"
                     /\ UNCHANGED pxConn
    /\ UNCHANGED <<pxD, pxProxy, pxReq, pxGot>>
    /\ UNCHANGED othersPx

\* the caller reads from the conn DialContext returned
TunnelRead ==
    /\ pxPc = "done"
    /\ pxRet.conn
    /\ pxSock # <<>>
    /\ pxGot' = Append(pxGot, Head(pxSock))
    /\ pxSock' = Tail(pxSock)
    /\ UNCHANGED <<pxPc, pxD, pxProxy, pxReq, pxConn, pxBr, pxRet>>
    /\ UNCHANGED othersPx

NextPx == DialProxy \/ WriteConnect \/ ReadConnectResponse \/ TunnelRead

IdlePx ==
    /\ pxPc = "idle" /\ pxD = <<>> /\ pxProxy = <<>> /\ pxReq = <<>> /\ pxConn = "none"
    /\ pxSock = <<>> /\ pxBr = <<>> /\ pxRet = <<>> /\ pxGot = <<>>

(***************************************************************************)
(* parseTLSRecords, annotateTLS and parseHandshake (part_011).  A chunk is *)
(* its bytes; a TLS record is type(1), version(2), length(2), payload.     *)
(***************************************************************************)
\* the bytes of a record of the given content type with n payload bytes; a
\* handshake payload starts with handshake type 1 (ClientHello)
RecordBytes(type, n) ==
    <<type, 3, 3, n \div 256, n % 256>> \o [i \in 1..n |-> IF type = 22 /\ i = 1 THEN 1 ELSE 0]

\* binary.BigEndian.Uint16
Uint16(hi, lo) == hi * 256 + lo

\* tlsVersionString
tlsVersionString(v) == IF v = 771 THEN "TLS 1.2" ELSE IF v = 772 THEN "TLS 1.3" ELSE "other"

\* annotateTLS: the payload, bounded to the declared record length
PayloadOf(data) ==
    LET recordLen == Uint16(data[4], data[5])
        payload == SubSeq(data, 6, Len(data))
    IN IF recordLen < Len(payload) THEN SubSeq(payload, 1, recordLen) ELSE payload

\* parseHandshake: the summary
parseHandshake(data) ==
    IF Len(data) < 4 THEN "Handshake"
    ELSE CASE data[1] = 1 -> "ClientHello"
           [] data[1] = 2 -> "ServerHello"
           [] data[1] = 11 -> "Certificate"
           [] OTHER -> "Handshake (type)"

\* annotateTLS: the summary and the detail, from the first five bytes and the
\* bounded payload
annotateTLS(data) ==
    IF Len(data) < 5 THEN [Summary |-> "", Detail |-> ""]
    ELSE LET contentType == data[1]
             verStr == tlsVersionString(Uint16(data[2], data[3]))
         IN [Summary |-> CASE contentType = 20 -> "ChangeCipherSpec"
                           [] contentType = 21 -> "Alert"
                           [] contentType = 22 -> parseHandshake(PayloadOf(data))
                           [] contentType = 23 -> "Application Data"
                           [] OTHER -> "TLS Record (type)",
             Detail |-> verStr]

\* the event of one entry
EventOf(e) ==
    LET a == IF Len(e.data) >= 5 THEN annotateTLS(e.data) ELSE [Summary |-> "", Detail |-> ""]
    IN [Direction |-> e.direction, Size |-> Len(e.data),
        Summary |-> [text |-> IF a.Summary = "" THEN "Data" ELSE a.Summary,
                     bytes |-> Len(e.data)],
        Detail |-> a.Detail]

\* captured chunks: one or more complete records, or three bytes of a record
RecordKinds == [type : {20, 22, 23}, n : {0, 4}]
ChunkKinds ==
    [direction : {"send", "recv"}, records : SeqsUpTo(RecordKinds, MaxRecords),
     partial : BOOLEAN]
Chunks == {c \in ChunkKinds : c.partial <=> c.records = <<>>}
ChunkBytes(c) ==
    IF c.partial THEN <<23, 3, 3>>
    ELSE Concat([i \in 1..Len(c.records) |-> RecordBytes(c.records[i].type, c.records[i].n)])

InitTl ==
    /\ tlPc = "loop"
    /\ tlCapture \in SeqsUpTo(Chunks, MaxChunks)
    /\ tlEntries = [i \in 1..Len(tlCapture) |->
                       [direction |-> tlCapture[i].direction, data |-> ChunkBytes(tlCapture[i])]]
    /\ tlI = 1
    /\ tlEvents = <<>>

\* one turn of the loop over the entries
ParseEntry ==
    /\ tlPc = "loop"
    /\ tlI <= Len(tlEntries)
    /\ tlEvents' = Append(tlEvents, EventOf(tlEntries[tlI]))
    /\ tlI' = tlI + 1
    /\ UNCHANGED <<tlPc, tlCapture, tlEntries>>
    /\ UNCHANGED othersTl

\* return events
ParseReturns ==
    /\ tlPc = "loop"
    /\ tlI > Len(tlEntries)
    /\ tlPc' = "done"
    /\ UNCHANGED <<tlCapture, tlEntries, tlI, tlEvents>>
    /\ UNCHANGED othersTl

NextTl == ParseEntry \/ ParseReturns

IdleTl ==
    tlPc = "idle" /\ tlCapture = <<>> /\ tlEntries = <<>> /\ tlI = 0 /\ tlEvents = <<>>

(***************************************************************************)
(* Client.Send and Client.dialTLS (part_010).  Two Send calls run on the   *)
(* same Client.  The Client's fields timing, connLogs, lastTarget and      *)
(* lastTLSInfo are guarded by c.mu one critical section at a time; each    *)
(* critical section is a step.  A value is modelled by the Send call whose *)
(* connection it comes from.                                               *)
(***************************************************************************)
Calls == {1, 2}
NoTracker == [tcp |-> 0, tls |-> 0]
NoRecord == [tcp |-> 0, tls |-> 0, tlsInfo |-> 0, trace |-> <<>>, target |-> 0]

InitCl ==
    /\ clPc = [r \in Calls |-> "start"]
    /\ clDial = [r \in Calls |-> "none"]
    /\ clDials = [r \in Calls |-> 0]
    /\ clTiming = 0
    /\ clConnLogs = <<>>
    /\ clLastTarget = 0
    /\ clLastTLS = 0
    /\ clTracker = [r \in Calls |-> NoTracker]
    /\ clResult = [r \in Calls |-> NoRecord]

\* Send: timing := newTimingTracker(); c.timing = timing; c.connLogs = nil;
\* c.lastTarget = ""; c.lastTLSInfo = nil
SendBegins(r) ==
    /\ clPc[r] = "start"
    /\ clPc' = [clPc EXCEPT ![r] = "run"]
    /\ clTiming' = r
    /\ clConnLogs' = <<>>
    /\ clLastTarget' = 0
    /\ clLastTLS' = 0
    /\ UNCHANGED <<clDial, clDials, clTracker, clResult>>
    /\ UNCHANGED othersCl

\* dialTLS: c.dialer.DialContext succeeded; c.timing.setTCP(dnsStart, tcpDone)
DialTCP(r) ==
    /\ clPc[r] = "run"
    /\ clDial[r] = "none"
    /\ clDials[r] < MaxDials
    /\ clDials' = [clDials EXCEPT ![r] = @ + 1]
    /\ clDial' = [clDial EXCEPT ![r] = "tcp"]
    /\ clTracker' = IF clTiming # 0 THEN [clTracker EXCEPT ![clTiming].tcp = r] ELSE clTracker
    /\ UNCHANGED <<clPc, clTiming, clConnLogs, clLastTarget, clLastTLS, clResult>>
    /\ UNCHANGED othersCl

\* dialTLS: c.connLogs = append(c.connLogs, logged); c.lastTarget = addr
DialWraps(r) ==
    /\ clPc[r] = "run"
    /\ clDial[r] = "tcp"
    /\ clDial' = [clDial EXCEPT ![r] = "wrapped"]
    /\ clConnLogs' = Append(clConnLogs, r)
    /\ clLastTarget' = r
    /\ UNCHANGED <<clPc, clDials, clTiming, clLastTLS, clTracker, clResult>>
    /\ UNCHANGED othersCl

\* dialTLS: the handshake failed, or it succeeded and c.timing.setTLS and
\* c.lastTLSInfo are set
DialHandshake(r) ==
    /\ clPc[r] = "run"
    /\ clDial[r] = "wrapped"
    /\ clDial' = [clDial EXCEPT ![r] = "none"]
    /\ \/ UNCHANGED <<clTracker, clLastTLS>>
       \/ /\ clTracker' = IF clTiming # 0 THEN [clTracker EXCEPT ![clTiming].tls = r]
                          ELSE clTracker
          /\ clLastTLS' = r
    /\ UNCHANGED <<clPc, clDials, clTiming, clConnLogs, clLastTarget, clResult>>
    /\ UNCHANGED othersCl

\* Send: the response was parsed; result.Timing = timing.result(), TlsInfo from
\* c.lastTLSInfo, ConnTrace from c.connLogs and c.lastTarget
SendReturns(r) ==
    /\ clPc[r] = "run"
    /\ clDial[r] = "none"
    /\ clDials[r] > 0
    /\ clPc' = [clPc EXCEPT ![r] = "done"]
    /\ clResult' = [clResult EXCEPT ![r] =
                       [tcp |-> clTracker[r].tcp, tls |-> clTracker[r].tls,
                        tlsInfo |-> clLastTLS, trace |-> clConnLogs,
                        target |-> IF Len(clConnLogs) > 0 THEN clLastTarget ELSE 0]]
    /\ UNCHANGED <<clDial, clDials, clTiming, clConnLogs, clLastTarget, clLastTLS, clTracker>>
    /\ UNCHANGED othersCl

NextCl ==
    \E r \in Calls :
        SendBegins(r) \/ DialTCP(r) \/ DialWraps(r) \/ DialHandshake(r) \/ SendReturns(r)

IdleCl ==
    /\ clPc = <<>> /\ clDial = <<>> /\ clDials = <<>> /\ clTiming = 0 /\ clConnLogs = <<>>
    /\ clLastTarget = 0 /\ clLastTLS = 0 /\ clTracker = <<>> /\ clResult = <<>>

(***************************************************************************)
(* timingTracker (timing.go) and the places of Send and dialTLS that set   *)
(* its instants (part_010).  Instants are nanoseconds of a monotonic       *)
(* clock; 0 is the zero time.Time.                                         *)
(***************************************************************************)
Millisecond == 1000000
ClockStart == 5 * Millisecond
ClockSteps == {1, 499999, 500000, 1000000, 1500001}

\* Duration.Milliseconds: integer division, truncated toward zero
Milliseconds(d) == IF d >= 0 THEN d \div Millisecond ELSE -((-d) \div Millisecond)

IsZero(t) == t = 0

\* A phase taken without looking whether its endpoints were set.
PhaseUnguarded(start, done) == Milliseconds(done - start)

\* if !start.IsZero() && !done.IsZero() { td.X = done.Sub(start).Milliseconds() }
Phase(start, done) ==
    IF ~IsZero(start) /\ ~IsZero(done) THEN Milliseconds(done - start) ELSE 0

\* timingTracker.result
result(t) ==
    [TCP |-> Phase(t.connectStart, t.connectDone),
     TLS |-> Phase(t.tlsStart, t.tlsDone),
     TTFB |-> Phase(t.requestStart, t.gotFirstByte),
     Download |-> Phase(t.gotFirstByte, t.bodyDone),
     Total |-> Phase(t.requestStart, t.bodyDone)]

newTimingTracker ==
    [connectStart |-> 0, connectDone |-> 0, tlsStart |-> 0, tlsDone |-> 0,
     gotFirstByte |-> 0, requestStart |-> 0, bodyDone |-> 0]
NoTimingData == [TCP |-> 0, TLS |-> 0, TTFB |-> 0, Download |-> 0, Total |-> 0]

InitTm ==
    /\ tmPc = "new"
    /\ tmNow = ClockStart
    /\ tmAdv = 0
    /\ tmLocal = [dnsStart |-> 0, tlsStart |-> 0]
    /\ tmT = newTimingTracker
    /\ tmOut = NoTimingData

\* time passes
Advance ==
    /\ tmPc # "done"
    /\ tmAdv < MaxAdvances
    /\ \E d \in ClockSteps : tmNow' = tmNow + d
    /\ tmAdv' = tmAdv + 1
    /\ UNCHANGED <<tmPc, tmLocal, tmT, tmOut>>
    /\ UNCHANGED othersTm

\* Send: timing.requestStart = time.Now()
RequestStarts ==
    /\ tmPc = "new"
    /\ tmT' = [tmT EXCEPT !.requestStart = tmNow]
    /\ tmPc' = "sent"
    /\ UNCHANGED <<tmNow, tmAdv, tmLocal, tmOut>>
    /\ UNCHANGED othersTm

\* dialTLS: dnsStart := time.Now()
DialStarts ==
    /\ tmPc = "sent"
    /\ tmLocal' = [tmLocal EXCEPT !.dnsStart = tmNow]
    /\ tmPc' = "dialing"
    /\ UNCHANGED <<tmNow, tmAdv, tmT, tmOut>>
    /\ UNCHANGED othersTm

\* dialTLS: tcpDone := time.Now(); c.timing.setTCP(dnsStart, tcpDone);
\* tlsStart := time.Now()
TCPDone ==
    /\ tmPc = "dialing"
    /\ tmT' = [tmT EXCEPT !.connectStart = tmLocal.dnsStart, !.connectDone = tmNow]
    /\ tmLocal' = [tmLocal EXCEPT !.tlsStart = tmNow]
    /\ tmPc' = "handshake"
    /\ UNCHANGED <<tmNow, tmAdv, tmOut>>
    /\ UNCHANGED othersTm

\* dialTLS: tlsDone := time.Now(); c.timing.setTLS(tlsStart, tlsDone)
TLSDone ==
    /\ tmPc = "handshake"
    /\ tmT' = [tmT EXCEPT !.tlsStart = tmLocal.tlsStart, !.tlsDone = tmNow]
    /\ tmPc' = "connected"
    /\ UNCHANGED <<tmNow, tmAdv, tmLocal, tmOut>>
    /\ UNCHANGED othersTm

\* the GotFirstResponseByte hook of trace(); a plain-HTTP request gets here
\* without dialTLS
GotFirstResponseByte ==
    /\ tmPc \in {"sent", "connected"}
    /\ tmT' = [tmT EXCEPT !.gotFirstByte = tmNow]
    /\ tmPc' = "responding"
    /\ UNCHANGED <<tmNow, tmAdv, tmLocal, tmOut>>
    /\ UNCHANGED othersTm

\* Send: timing.bodyDone = time.Now(); result.Timing = timing.result().  A
\* transport that does not call the hook gets here from "connected".
BodyDone ==
    /\ tmPc \in {"connected", "responding"}
    /\ tmT' = [tmT EXCEPT !.bodyDone = tmNow]
    /\ tmOut' = result(tmT')
    /\ tmPc' = "done"
    /\ UNCHANGED <<tmNow, tmAdv, tmLocal>>
    /\ UNCHANGED othersTm

NextTm ==
    \/ Advance \/ RequestStarts \/ DialStarts \/ TCPDone \/ TLSDone
    \/ GotFirstResponseByte \/ BodyDone

IdleTm ==
    /\ tmPc = "idle" /\ tmNow = 0 /\ tmAdv = 0 /\ tmLocal = <<>> /\ tmT = <<>>
    /\ tmOut = <<>>

(***************************************************************************)
(* Client.Send (part_010) from buildTransport to closeTransport: which     *)
(* transport carries each request, the connections it dials and when they  *)
(* are closed.  A connection is a record: the transport that dialled it    *)
(* ("custom", or "h2" and "h1" of h2FallbackTransport), the scheme of the  *)
(* request it was dialled for, whether a TLS handshake was started on it,  *)
(* whether the HTTP/2 preface was written on it, and its state.            *)
(***************************************************************************)
\* c.tlsConfig: nil, a preset, or preset "custom"; CustomAkamai: empty, a
\* text ParseAkamaiText refuses, a text it accepts
SnConfigs ==
    {c \in [tls : {"none", "chrome", "custom"}, akamai : {"", "bad", "ok"}] :
        c.tls = "none" => c.akamai = ""}

Schemes == {"http", "https"}

\* buildTransport: CustomH2Transport when the preset is "custom" and the
\* Akamai text is not empty and parses, h2FallbackTransport otherwise
TransportFor(cfg) ==
    IF cfg.tls = "custom" /\ cfg.akamai # "" /\ cfg.akamai = "ok"
    THEN "custom"
    ELSE "fallback"

\* who dials through c.dialTLS: CustomH2Transport.RoundTrip and the h2
\* transport always, the h1 transport for https (DialTLSContext); the h1
\* transport dials http through c.dialer.DialContext
UsesTLS(by, scheme) == by # "h1" \/ scheme = "https"

Conn(by, scheme) ==
    [by |-> by, scheme |-> scheme, tls |-> UsesTLS(by, scheme), preface |-> FALSE,
     state |-> "open"]

\* A failure path that returns without closing the connection.
LeftOpen(c) == c

\* conn.Close()
Close(c) == [c EXCEPT !.state = "closed"]

\* the state of a connection once the response body over it was closed:
\* connClosingBody.Close closes the connection; a body of the fallback
\* transports gives the connection back to its pool, or closes it
AfterBody(c) == IF c.by = "custom" THEN {"closed"} ELSE {"idle", "closed"}

\* t.CloseIdleConnections()
CloseIdle(conns, by) ==
    [i \in 1..Len(conns) |->
        IF conns[i].by = by /\ conns[i].state = "idle" THEN Close(conns[i]) ELSE conns[i]]

\* closeTransport: both pools of h2FallbackTransport; nothing for
\* CustomH2Transport
closeTransport(kind, conns) ==
    IF kind = "fallback" THEN CloseIdle(CloseIdle(conns, "h2"), "h1") ELSE conns

\* a response: whether its status is 3xx and whether it has a Location
SnResponses == [redirect : BOOLEAN, location : BOOLEAN]

InitSn ==
    /\ snPc = "start"
    /\ snCfg \in SnConfigs
    /\ snFollow \in BOOLEAN
    /\ snMax \in 1..MaxSendHops
    /\ snI = 0
    /\ snScheme \in Schemes
    /\ snConns = <<>>
    /\ snCur = 0
    /\ snBody = 0
    /\ snResp = [redirect |-> FALSE, location |-> FALSE]
    /\ snOut = "none"

\* client.Do returned an error: Send returns it once the deferred
\* closeTransport has run
SnFail ==
    /\ snPc' = "closing"
    /\ snOut' = "err"
    /\ snCur' = 0

\* client.Do returned a response whose body is read from connection i
SnRespond(i) ==
    /\ snResp' \in SnResponses
    /\ snBody' = i
    /\ snCur' = 0
    /\ snPc' = "responded"
    /\ UNCHANGED snOut

\* Send: buildRequest, buildTransport, and followRedirects or client.Do
SN_Begin ==
    /\ snPc = "start"
    /\ \/ snPc' = "do" /\ UNCHANGED snOut
       \/ snPc' = "returned" /\ snOut' = "err"
    /\ UNCHANGED <<snCfg, snFollow, snMax, snI, snScheme, snConns, snCur, snBody, snResp>>
    /\ UNCHANGED othersSn

\* CustomH2Transport.RoundTrip: conn, err := t.DialTLSContext(...); dialTLS
\* closes the TCP connection itself when the handshake fails
SN_CustomDial ==
    /\ snPc = "do"
    /\ TransportFor(snCfg) = "custom"
    /\ \/ SnFail /\ UNCHANGED snConns
       \/ SnFail /\ snConns' = Append(snConns, Close(Conn("custom", snScheme)))
       \/ /\ snConns' = Append(snConns, Conn("custom", snScheme))
          /\ snCur' = Len(snConns) + 1
          /\ snPc' = "dialed"
          /\ UNCHANGED snOut
    /\ UNCHANGED <<snCfg, snFollow, snMax, snI, snScheme, snBody, snResp>>
    /\ UNCHANGED othersSn

\* io.WriteString(conn, clientPreface)
SN_CustomPreface ==
    /\ snPc = "dialed"
    /\ \/ /\ snConns' = [snConns EXCEPT ![snCur].preface = TRUE]
          /\ snPc' = "exchange"
          /\ UNCHANGED <<snCur, snOut>>
       \/ /\ snConns' = [snConns EXCEPT ![snCur] = Close(@)]
          /\ SnFail
    /\ UNCHANGED <<snCfg, snFollow, snMax, snI, snScheme, snBody, snResp>>
    /\ UNCHANGED othersSn

\* the rest of RoundTrip: the frames are written and flushed and
\* readResponse runs; every error closes the connection, a response gets
\* the connection as its connClosingBody
SN_CustomExchange ==
    /\ snPc = "exchange"
    /\ \/ /\ snConns' = [snConns EXCEPT ![snCur] = Close(@)]
          /\ SnFail
          /\ UNCHANGED <<snBody, snResp>>
       \/ /\ SnRespond(snCur)
          /\ UNCHANGED snConns
    /\ UNCHANGED <<snCfg, snFollow, snMax, snI, snScheme>>
    /\ UNCHANGED othersSn

\* h2FallbackTransport.RoundTrip for https: t.h2.RoundTrip(req) on a new or
\* a pooled connection; after an error t.h2.CloseIdleConnections() and h1
SN_FallbackH2 ==
    /\ snPc = "do"
    /\ TransportFor(snCfg) = "fallback"
    /\ snScheme = "https"
    /\ \/ /\ snPc' = "h1"
          /\ \/ UNCHANGED snConns
             \/ snConns' = Append(snConns, Close(Conn("h2", snScheme)))
             \/ \E st \in {"idle", "closed"} :
                   snConns' = CloseIdle(Append(snConns,
                                  [Conn("h2", snScheme) EXCEPT !.preface = TRUE,
                                                               !.state = st]), "h2")
          /\ UNCHANGED <<snCur, snBody, snResp, snOut>>
       \/ /\ snConns' = Append(snConns, [Conn("h2", snScheme) EXCEPT !.preface = TRUE])
          /\ SnRespond(Len(snConns) + 1)
       \/ \E i \in 1..Len(snConns) :
             /\ snConns[i].by = "h2"
             /\ snConns[i].state = "idle"
             /\ snConns' = [snConns EXCEPT ![i].state = "open"]
             /\ SnRespond(i)
    /\ UNCHANGED <<snCfg, snFollow, snMax, snI, snScheme>>
    /\ UNCHANGED othersSn

\* return t.h1.RoundTrip(req): for http, and for https after h2 failed
SN_FallbackH1 ==
    /\ \/ snPc = "h1"
       \/ snPc = "do" /\ TransportFor(snCfg) = "fallback" /\ snScheme # "https"
    /\ \/ SnFail /\ UNCHANGED <<snConns, snBody, snResp>>
       \/ /\ SnFail
          /\ snConns' = Append(snConns, Close(Conn("h1", snScheme)))
          /\ UNCHANGED <<snBody, snResp>>
       \/ /\ snConns' = Append(snConns, Conn("h1", snScheme))
          /\ SnRespond(Len(snConns) + 1)
       \/ \E i \in 1..Len(snConns) :
             /\ snConns[i].by = "h1"
             /\ snConns[i].state = "idle"
             /\ snConns[i].scheme = snScheme
             /\ snConns' = [snConns EXCEPT ![i].state = "open"]
             /\ SnRespond(i)
    /\ UNCHANGED <<snCfg, snFollow, snMax, snI, snScheme>>
    /\ UNCHANGED othersSn

\* followRedirects after client.Do returned a response: a final response is
\* returned; a redirect's body is closed and the next request is built, or
\* the loop ends with "too many redirects".  Without FollowRedirects the
\* response of the one client.Do is the result.
SN_Follow ==
    /\ snPc = "responded"
    /\ IF ~snFollow \/ ~snResp.redirect \/ ~snResp.location
       THEN /\ snPc' = "parse"
            /\ UNCHANGED <<snI, snScheme, snConns, snCur, snBody, snOut>>
       ELSE /\ \E st \in AfterBody(snConns[snBody]) :
                  snConns' = [snConns EXCEPT ![snBody] =
                                 IF st = "closed" THEN Close(@) ELSE [@ EXCEPT !.state = st]]
            /\ snBody' = 0
            /\ \/ SnFail /\ UNCHANGED <<snI, snScheme>>
               \/ /\ snScheme' \in Schemes
                  /\ snI' = snI + 1
                  /\ IF LoopGuard(snI + 1, snMax)
                     THEN snPc' = "do" /\ UNCHANGED <<snCur, snOut>>
                     ELSE SnFail
    /\ UNCHANGED <<snCfg, snFollow, snMax, snResp>>
    /\ UNCHANGED othersSn

\* parseResponse: defer resp.Body.Close(); the body is read, or reading fails
SN_Parse ==
    /\ snPc = "parse"
    /\ \E st \in AfterBody(snConns[snBody]) :
          snConns' = [snConns EXCEPT ![snBody] =
                         IF st = "closed" THEN Close(@) ELSE [@ EXCEPT !.state = st]]
    /\ snBody' = 0
    /\ snOut' \in {"ok", "err"}
    /\ snPc' = "closing"
    /\ UNCHANGED <<snCfg, snFollow, snMax, snI, snScheme, snCur, snResp>>
    /\ UNCHANGED othersSn

\* defer closeTransport(transport), and Send returns
SN_Return ==
    /\ snPc = "closing"
    /\ snConns' = closeTransport(TransportFor(snCfg), snConns)
    /\ snPc' = "returned"
    /\ UNCHANGED <<snCfg, snFollow, snMax, snI, snScheme, snCur, snBody, snResp, snOut>>
    /\ UNCHANGED othersSn

NextSn ==
    \/ SN_Begin \/ SN_CustomDial \/ SN_CustomPreface \/ SN_CustomExchange
    \/ SN_FallbackH2 \/ SN_FallbackH1 \/ SN_Follow \/ SN_Parse \/ SN_Return

IdleSn ==
    /\ snPc = "idle" /\ snCfg = <<>> /\ snFollow = FALSE /\ snMax = 0 /\ snI = 0
    /\ snScheme = "" /\ snConns = <<>> /\ snCur = 0 /\ snBody = 0 /\ snResp = <<>>
    /\ snOut = "none"

(***************************************************************************)
(* The tabs of the request store (request-store.ts).  A tab is its request *)
(* id and how many times " (copy)" was appended to its name.  uid() is a   *)
(* counter, so every new id is fresh.                                      *)
(***************************************************************************)
\* the ids a caller can pass: every id uid() has made, and 0, which no tab has
TabIds == 0..tbUid

\* s.tabs.findIndex((t) => t.request.id === id), 0 for -1
findIndex(tabs, id) ==
    IF \E i \in 1..Len(tabs) : tabs[i].id = id
    THEN CHOOSE i \in 1..Len(tabs) :
            tabs[i].id = id /\ \A j \in 1..(i - 1) : tabs[j].id # id
    ELSE 0

\* tabs.splice(idx, 1), idx counted from 1
RemoveAt(tabs, idx) == SubSeq(tabs, 1, idx - 1) \o SubSeq(tabs, idx + 1, Len(tabs))

\* tabs.splice(idx, 0, t), idx counted from 1
InsertAt(tabs, idx, t) ==
    SubSeq(tabs, 1, idx - 1) \o <<t>> \o SubSeq(tabs, idx, Len(tabs))

\* new Map(s.tabs.map(t => [t.request.id, t])).get(id): the last tab with
\* that id; orderedIds.map(...).filter(Boolean) drops the ids no tab has
Reordered(tabs, orderedIds) ==
    LET known(id) == \E i \in 1..Len(tabs) : tabs[i].id = id
        get(id) == tabs[CHOOSE i \in 1..Len(tabs) :
                           tabs[i].id = id /\ \A j \in (i + 1)..Len(tabs) : tabs[j].id # id]
        kept == SelectSeq(orderedIds, known)
    IN [i \in 1..Len(kept) |-> get(kept[i])]

\* the id lists a caller can pass to setTabOrder
OrderLists == UNION {[1..n -> TabIds] : n \in 0..MaxOrderLen}

InitTb ==
    /\ tbTabs = <<[id |-> 1, copies |-> 0]>>
    /\ tbActive = 1
    /\ tbUid = 1
    /\ tbLive = {1}
    /\ tbOps = 0

\* addTab: s.tabs.push(defaultTab(overrides)); s.activeTabId = t.request.id
addTab ==
    /\ tbOps < MaxTabOps
    /\ tbUid' = tbUid + 1
    /\ tbTabs' = Append(tbTabs, [id |-> tbUid + 1, copies |-> 0])
    /\ tbActive' = tbUid + 1
    /\ tbLive' = tbLive \cup {tbUid + 1}
    /\ tbOps' = tbOps + 1
    /\ UNCHANGED othersTb

\* removeTab(id)
removeTab ==
    /\ tbOps < MaxTabOps
    /\ \E id \in TabIds :
          LET idx == findIndex(tbTabs, id)
              rest == RemoveAt(tbTabs, idx)
              next == rest[IF idx < Len(rest) THEN idx ELSE Len(rest)].id
          IN IF Len(tbTabs) <= 1 \/ idx = 0
             THEN UNCHANGED <<tbTabs, tbActive, tbLive>>
             ELSE /\ tbTabs' = rest
                  /\ tbActive' = IF tbActive = id THEN next
                                 ELSE IF ~\E i \in 1..Len(rest) : rest[i].id = tbActive
                                 THEN next
                                 ELSE tbActive
                  /\ tbLive' = tbLive \ {id}
    /\ tbOps' = tbOps + 1
    /\ UNCHANGED tbUid
    /\ UNCHANGED othersTb

\* switchTab(id)
switchTab ==
    /\ tbOps < MaxTabOps
    /\ \E id \in TabIds :
          tbActive' = IF \E i \in 1..Len(tbTabs) : tbTabs[i].id = id THEN id ELSE tbActive
    /\ tbOps' = tbOps + 1
    /\ UNCHANGED <<tbTabs, tbUid, tbLive>>
    /\ UNCHANGED othersTb

\* duplicateTab(id)
duplicateTab ==
    /\ tbOps < MaxTabOps
    /\ \E id \in TabIds :
          LET idx == findIndex(tbTabs, id)
          IN IF idx = 0
             THEN UNCHANGED <<tbTabs, tbActive, tbUid, tbLive>>
             ELSE /\ tbUid' = tbUid + 1
                  /\ tbTabs' = Append(tbTabs, [id |-> tbUid + 1,
                                               copies |-> tbTabs[idx].copies + 1])
                  /\ tbActive' = tbUid + 1
                  /\ tbLive' = tbLive \cup {tbUid + 1}
    /\ tbOps' = tbOps + 1
    /\ UNCHANGED othersTb

\* reorderTab(fromId, toId)
reorderTab ==
    /\ tbOps < MaxTabOps
    /\ \E fromId \in TabIds, toId \in TabIds :
          LET fromIdx == findIndex(tbTabs, fromId)
              toIdx == findIndex(tbTabs, toId)
          IN tbTabs' = IF fromIdx = 0 \/ toIdx = 0 \/ fromIdx = toIdx
                       THEN tbTabs
                       ELSE InsertAt(RemoveAt(tbTabs, fromIdx), toIdx, tbTabs[fromIdx])
    /\ tbOps' = tbOps + 1
    /\ UNCHANGED <<tbActive, tbUid, tbLive>>
    /\ UNCHANGED othersTb

\* setTabOrder(orderedIds)
setTabOrder ==
    /\ tbOps < MaxTabOps
    /\ \E orderedIds \in OrderLists :
          LET reordered == Reordered(tbTabs, orderedIds)
          IN tbTabs' = IF Len(reordered) = Len(tbTabs) THEN reordered ELSE tbTabs
    /\ tbOps' = tbOps + 1
    /\ UNCHANGED <<tbActive, tbUid, tbLive>>
    /\ UNCHANGED othersTb

NextTb == addTab \/ removeTab \/ switchTab \/ duplicateTab \/ reorderTab \/ setTabOrder

IdleTb == tbTabs = <<>> /\ tbActive = 0 /\ tbUid = 0 /\ tbLive = {} /\ tbOps = 0

(***************************************************************************)
(* The statements of Send, dialTLS (part_010) and loggedConn (redirect.go) *)
(* that lock, unlock, touch shared fields or do network I/O, in program    *)
(* order.  A statement is a record: op is "lock" or "unlock" (of mu), "set"*)
(* (fields guarded by mu are read or written), "io" (a call that waits for *)
(* the network) or "test" (an error test); skip is how many statements an  *)
(* "io" that transfers nothing or a "test" that fails jumps over, -1 for a *)
(* return from Send.                                                       *)
(***************************************************************************)
St(op, mu, what, skip) == [op |-> op, mu |-> mu, what |-> what, skip |-> skip]

\* c.mu.Lock(); <assignments>; c.mu.Unlock()
Locked(mu, what) ==
    <<St("lock", mu, "", 0), St("set", mu, what, 0), St("unlock", mu, "", 0)>>

\* A Read that takes the mutex before it reads from the connection.
loggedConnReadLocked ==
    <<St("lock", "tap", "", 0), St("io", "", "Conn.Read", 1),
      St("set", "tap", "entries = append(entries, recv)", 0), St("unlock", "tap", "", 0)>>

\* loggedConn.Read: n, err := c.Conn.Read(b); if n > 0 { lock; append; unlock }
loggedConnRead ==
    <<St("io", "", "Conn.Read", 3)>> \o Locked("tap", "entries = append(entries, recv)")

\* loggedConn.Write: n, err := c.Conn.Write(b); if n > 0 { lock; append; unlock }
loggedConnWrite ==
    <<St("io", "", "Conn.Write", 3)>> \o Locked("tap", "entries = append(entries, send)")

\* loggedConn.getEntries: c.mu.Lock(); defer c.mu.Unlock(); copy(out, c.entries)
getEntries == Locked("tap", "copy(out, entries)")

\* Client.dialTLS: the dial, the two locked sections after it, the handshake
\* (its bytes go through loggedConn.Write and loggedConn.Read), and the
\* locked section that stores the TLS state
dialTLS ==
    <<St("io", "", "dialer.DialContext", -1)>>
        \o Locked("client", "timing.setTCP")
        \o Locked("client", "connLogs = append(connLogs, logged); lastTarget = addr")
        \o loggedConnWrite \o loggedConnRead
        \o <<St("test", "", "HandshakeContext err", -1)>>
        \o Locked("client", "timing.setTLS; lastTLSInfo = ConnectionState")

\* Client.Send: the locked reset, the transport (dialTLS, then the request
\* and the response through the loggedConn), and after parseResponse the
\* locked copy of the fields and mergeConnEntries
SendProgram ==
    Locked("client", "timing = t; connLogs = nil; lastTarget = empty; lastTLSInfo = nil")
        \o dialTLS
        \o loggedConnWrite \o loggedConnRead
        \o <<St("test", "", "client.Do err", -1)>>
        \o Locked("client", "copy lastTLSInfo, connLogs, lastTarget")
        \o getEntries

\* the goroutine of the transport that reads the connection
ReaderProgram == loggedConnRead

LockUsers == {"send", "reader"}
Program(g) == IF g = "send" THEN SendProgram ELSE ReaderProgram

\* the statement a goroutine is at; none when it has returned
AtEnd(g) == lkPc[g] > Len(Program(g))
Stmt(g) == Program(g)[lkPc[g]]

\* the statement after a jump
Jump(g, skip) == IF skip = -1 THEN Len(Program(g)) + 1 ELSE lkPc[g] + 1 + skip

InitLk ==
    /\ lkPc = [g \in LockUsers |-> 1]
    /\ lkMu = [m \in {"client", "tap"} |-> "free"]
    /\ lkRounds = 0

\* mu.Lock(): waits until the mutex is free
LK_Lock(g) ==
    /\ ~AtEnd(g)
    /\ Stmt(g).op = "lock"
    /\ lkMu[Stmt(g).mu] = "free"
    /\ lkMu' = [lkMu EXCEPT ![Stmt(g).mu] = g]
    /\ lkPc' = [lkPc EXCEPT ![g] = @ + 1]
    /\ UNCHANGED lkRounds
    /\ UNCHANGED othersLk

\* mu.Unlock()
LK_Unlock(g) ==
    /\ ~AtEnd(g)
    /\ Stmt(g).op = "unlock"
    /\ lkMu' = [lkMu EXCEPT ![Stmt(g).mu] = "free"]
    /\ lkPc' = [lkPc EXCEPT ![g] = @ + 1]
    /\ UNCHANGED lkRounds
    /\ UNCHANGED othersLk

\* the assignments and copies of a locked section
LK_Set(g) ==
    /\ ~AtEnd(g)
    /\ Stmt(g).op = "set"
    /\ lkPc' = [lkPc EXCEPT ![g] = @ + 1]
    /\ UNCHANGED <<lkMu, lkRounds>>
    /\ UNCHANGED othersLk

\* a network call returns: with bytes or a connection, or with nothing
LK_IO(g) ==
    /\ ~AtEnd(g)
    /\ Stmt(g).op = "io"
    /\ \/ lkPc' = [lkPc EXCEPT ![g] = @ + 1]
       \/ lkPc' = [lkPc EXCEPT ![g] = Jump(g, Stmt(g).skip)]
    /\ UNCHANGED <<lkMu, lkRounds>>
    /\ UNCHANGED othersLk

\* if err != nil { return nil, err }
LK_Test(g) ==
    /\ ~AtEnd(g)
    /\ Stmt(g).op = "test"
    /\ \/ lkPc' = [lkPc EXCEPT ![g] = @ + 1]
       \/ lkPc' = [lkPc EXCEPT ![g] = Jump(g, Stmt(g).skip)]
    /\ UNCHANGED <<lkMu, lkRounds>>
    /\ UNCHANGED othersLk

\* the reading goroutine calls loggedConn.Read again
LK_ReadAgain ==
    /\ AtEnd("reader")
    /\ lkRounds < MaxRounds
    /\ lkRounds' = lkRounds + 1
    /\ lkPc' = [lkPc EXCEPT !["reader"] = 1]
    /\ UNCHANGED lkMu
    /\ UNCHANGED othersLk

NextLk ==
    \/ \E g \in LockUsers : LK_Lock(g) \/ LK_Unlock(g) \/ LK_Set(g) \/ LK_IO(g) \/ LK_Test(g)
    \/ LK_ReadAgain

IdleLk == lkPc = <<>> /\ lkMu = <<>> /\ lkRounds = 0

(***************************************************************************)
(* The specifications, one per component.                                  *)
(***************************************************************************)
InitRedirect == InitRd /\ IdleRs /\ IdleEn /\ IdleH2 /\ IdleFb /\ IdleSt /\ IdleTp /\ IdleMg /\ IdleJa /\ IdlePx /\ IdleTl /\ IdleCl /\ IdleTm /\ IdleSn /\ IdleTb /\ IdleLk
SpecRedirect == InitRedirect /\ [][NextRd]_vars
\* Send is sequential code and every client.Do returns (the client has a
\* 30 s timeout), so a step that can be taken is taken.
SpecRedirectLive == InitRedirect /\ [][NextRd]_vars /\ WF_vars(NextRd)

InitResponse == InitRs /\ IdleRd /\ IdleEn /\ IdleH2 /\ IdleFb /\ IdleSt /\ IdleTp /\ IdleMg /\ IdleJa /\ IdlePx /\ IdleTl /\ IdleCl /\ IdleTm /\ IdleSn /\ IdleTb /\ IdleLk
SpecResponse == InitResponse /\ [][NextRs]_vars

InitBuild ==
    /\ enPc = "start"
    /\ enCfg \in ContentTypeConfigs
    /\ enText = [nparts |-> 4, settings |-> ChromeSettings, wu |-> 15663105, prio |-> "0",
                 order |-> <<"m", "a", "s", "p">>]
    /\ enReq = <<>>
    /\ enTransport = <<>>
    /\ enBlock = <<>>
    /\ IdleRd /\ IdleRs /\ IdleH2 /\ IdleFb /\ IdleSt /\ IdleTp /\ IdleMg /\ IdleJa /\ IdlePx
    /\ IdleTl /\ IdleCl /\ IdleTm /\ IdleSn /\ IdleTb /\ IdleLk
SpecBuild == InitBuild /\ [][NextEn]_vars

InitEncode == InitEn /\ IdleRd /\ IdleRs /\ IdleH2 /\ IdleFb /\ IdleSt /\ IdleTp /\ IdleMg /\ IdleJa /\ IdlePx /\ IdleTl /\ IdleCl /\ IdleTm /\ IdleSn /\ IdleTb /\ IdleLk
SpecEncode == InitEncode /\ [][NextEn]_vars

InitTransport == InitH2 /\ IdleRd /\ IdleRs /\ IdleEn /\ IdleFb /\ IdleSt /\ IdleTp /\ IdleMg /\ IdleJa /\ IdlePx /\ IdleTl /\ IdleCl /\ IdleTm /\ IdleSn /\ IdleTb /\ IdleLk
SpecH2 == InitTransport /\ [][NextH2]_vars

InitBulk ==
    /\ InitH2 /\ IdleRd /\ IdleRs /\ IdleEn /\ IdleFb /\ IdleSt /\ IdleTp /\ IdleMg /\ IdleJa /\ IdlePx /\ IdleTl /\ IdleCl /\ IdleTm /\ IdleSn /\ IdleTb /\ IdleLk
    /\ h2Text.settings = ChromeSettings
    /\ h2Req.bodyLen = 0
SpecH2Bulk == InitBulk /\ [][NextH2Bulk]_vars

InitFallback == InitFb /\ IdleRd /\ IdleRs /\ IdleEn /\ IdleH2 /\ IdleSt /\ IdleTp /\ IdleMg /\ IdleJa /\ IdlePx /\ IdleTl /\ IdleCl /\ IdleTm /\ IdleSn /\ IdleTb /\ IdleLk
SpecFallback == InitFallback /\ [][NextFb]_vars

InitStore == InitSt /\ IdleRd /\ IdleRs /\ IdleEn /\ IdleH2 /\ IdleFb /\ IdleTp /\ IdleMg /\ IdleJa /\ IdlePx /\ IdleTl /\ IdleCl /\ IdleTm /\ IdleSn /\ IdleTb /\ IdleLk
SpecStore == InitStore /\ [][NextSt]_vars

InitTap == InitTp /\ IdleRd /\ IdleRs /\ IdleEn /\ IdleH2 /\ IdleFb /\ IdleSt /\ IdleMg /\ IdleJa /\ IdlePx /\ IdleTl /\ IdleCl /\ IdleTm /\ IdleSn /\ IdleTb /\ IdleLk
SpecTap == InitTap /\ [][NextTp]_vars

InitMerge == InitMg /\ IdleRd /\ IdleRs /\ IdleEn /\ IdleH2 /\ IdleFb /\ IdleSt /\ IdleTp /\ IdleJa /\ IdlePx /\ IdleTl /\ IdleCl /\ IdleTm /\ IdleSn /\ IdleTb /\ IdleLk
SpecMerge == InitMerge /\ [][NextMg]_vars

InitJA3 ==
    InitJa /\ IdleRd /\ IdleRs /\ IdleEn /\ IdleH2 /\ IdleFb /\ IdleSt /\ IdleTp /\ IdleMg /\ IdlePx /\ IdleTl /\ IdleCl /\ IdleTm /\ IdleSn /\ IdleTb /\ IdleLk
SpecJA3 == InitJA3 /\ [][NextJa]_vars

InitProxy ==
    InitPx /\ IdleRd /\ IdleRs /\ IdleEn /\ IdleH2 /\ IdleFb /\ IdleSt /\ IdleTp /\ IdleMg
    /\ IdleJa /\ IdleTl /\ IdleCl /\ IdleTm /\ IdleSn /\ IdleTb /\ IdleLk
SpecProxy == InitProxy /\ [][NextPx]_vars

InitTls ==
    InitTl /\ IdleRd /\ IdleRs /\ IdleEn /\ IdleH2 /\ IdleFb /\ IdleSt /\ IdleTp /\ IdleMg
    /\ IdleJa /\ IdlePx /\ IdleCl /\ IdleTm /\ IdleSn /\ IdleTb /\ IdleLk
SpecTls == InitTls /\ [][NextTl]_vars

InitClient ==
    InitCl /\ IdleRd /\ IdleRs /\ IdleEn /\ IdleH2 /\ IdleFb /\ IdleSt
    /\ IdleTp /\ IdleMg /\ IdleJa /\ IdlePx /\ IdleTl /\ IdleTm /\ IdleSn /\ IdleTb /\ IdleLk
SpecClient == InitClient /\ [][NextCl]_vars

InitTiming ==
    InitTm /\ IdleRd /\ IdleRs /\ IdleEn /\ IdleH2 /\ IdleFb /\ IdleSt
    /\ IdleTp /\ IdleMg /\ IdleJa /\ IdlePx /\ IdleTl /\ IdleCl /\ IdleSn /\ IdleTb /\ IdleLk
SpecTiming == InitTiming /\ [][NextTm]_vars

InitSend ==
    InitSn /\ IdleRd /\ IdleRs /\ IdleEn /\ IdleH2 /\ IdleFb /\ IdleSt
    /\ IdleTp /\ IdleMg /\ IdleJa /\ IdlePx /\ IdleTl /\ IdleCl /\ IdleTm /\ IdleTb /\ IdleLk
SpecSend == InitSend /\ [][NextSn]_vars

InitTabs ==
    InitTb /\ IdleRd /\ IdleRs /\ IdleEn /\ IdleH2 /\ IdleFb /\ IdleSt
    /\ IdleTp /\ IdleMg /\ IdleJa /\ IdlePx /\ IdleTl /\ IdleCl /\ IdleTm /\ IdleSn /\ IdleLk
SpecTabs == InitTabs /\ [][NextTb]_vars

InitLocks ==
    InitLk /\ IdleRd /\ IdleRs /\ IdleEn /\ IdleH2 /\ IdleFb /\ IdleSt
    /\ IdleTp /\ IdleMg /\ IdleJa /\ IdlePx /\ IdleTl /\ IdleCl /\ IdleTm /\ IdleSn /\ IdleTb
SpecLocks == InitLocks /\ [][NextLk]_vars

(***************************************************************************)
(* Claims about followRedirects.                                           *)
(***************************************************************************)
\* The run is a chain: follow-redirects on, max_redirects = N >= 1, no transport
\* error, and the server has answered at most N redirects.
ChainWithinCap ==
    /\ rdPc = "done"
    /\ rdCfg.followRedirects
    /\ rdCfg.maxRedirects >= 1
    /\ rdOut.err # "transport"
    /\ rdServed <= rdCfg.maxRedirects

\* C1: with follow-redirects on and max_redirects = N >= 1, every chain of
\* k <= N redirects (k = N included) ends in success with the final response,
\* len(hops) = k and hops[i].url the URL of the i-th request.
C1_ChainUpToCapSucceeds ==
    ChainWithinCap =>
        /\ rdOut.kind = "resp"
        /\ Len(rdOut.hops) = rdServed
        /\ \A i \in 1..Len(rdOut.hops) : rdOut.hops[i].url = rdSent[i].url

\* What the code does guarantee: the same for chains of k < N redirects.
C1_ChainBelowCapSucceeds ==
    (ChainWithinCap /\ rdServed < rdCfg.maxRedirects) =>
        /\ rdOut.kind = "resp"
        /\ Len(rdOut.hops) = rdServed
        /\ \A i \in 1..Len(rdOut.hops) : rdOut.hops[i].url = rdSent[i].url

\* the cap the configuration asks for: max_redirects, 10 when 0 is given
ConfiguredCap == IF rdCfg.maxRedirects = 0 THEN 10 ELSE rdCfg.maxRedirects

C13_FollowUpIsGet ==
    \A i \in 2..Len(rdSent) :
        LET prev == rdSent[i - 1]
            loc == rdHops[i - 1].location
        IN /\ rdSent[i].method = "GET"
           /\ ~rdSent[i].body
           /\ rdSent[i].ctx = rdSent[1].ctx
           /\ rdSent[i].url.path = loc.path
           /\ rdSent[i].url.host = IF loc.kind = "rel" THEN prev.url.host ELSE loc.host

C13_Witness ==
    /\ Len(rdSent) >= 2
    /\ rdSent[1].method = "POST"
    /\ rdSent[1].body
    /\ rdHops[1].status = 307
    /\ rdHops[1].location = [kind |-> "rel", host |-> "", path |-> "/y"]
    /\ rdSent[2].method = "GET"
    /\ rdSent[2].url = [host |-> "a.test", path |-> "/y"]

(***************************************************************************)
(* Claims about parseResponse.                                             *)
(***************************************************************************)
\* C2: a transport body longer than 100 MiB makes the request fail; a record
\* whose body was cut off at the limit is never returned as a success.
C2_OverflowFails ==
    (rsPc = "done" /\ rsResp.body.len > maxBodySize) => rsOut.kind = "err"

(***************************************************************************)
(* Claims about the HTTP/2 header block.                                   *)
(***************************************************************************)
PseudoNames == {":method", ":authority", ":scheme", ":path"}
IsPseudo(f) == f.name.n \in PseudoNames
IsRegular(f) == ~IsPseudo(f)

\* The ordered header list H of the request, and the request headers H does
\* not name, in the order the request first set them.
NamedIn(H, ck) == \E i \in 1..Len(H) : CanonicalHeaderKey(H[i]) = ck
ExpectedRegular(req, H) ==
    LET unnamed(ck) == ~NamedIn(H, ck)
        rest == SelectSeq(req.header.ins, unnamed)
    IN Concat([i \in 1..Len(H) |->
                  IF HasKey(req.header, CanonicalHeaderKey(H[i]))
                  THEN FieldsOf(req.header, CanonicalHeaderKey(H[i]), ToLowerKey(H[i]))
                  ELSE <<>>])
       \o Concat([i \in 1..Len(rest) |->
                  FieldsOf(req.header, rest[i], ToLowerKey(rest[i]))])

\* C4: the non-pseudo fields of the HEADERS block are the headers named in the
\* ordered header list H, in H's order, followed by the request headers not
\* named in H in the request's insertion order (so the same on every run).
C4_RegularHeaderOrder ==
    enPc = "done" =>
        SelectSeq(enBlock, IsRegular) = ExpectedRegular(enReq, enTransport.HeaderOrder)

\* The part of C4 the code keeps: the fields of the headers H names come first,
\* in H's order; the others follow, each exactly once.
C4_NamedHeadersFirst ==
    enPc = "done" =>
        LET reg == SelectSeq(enBlock, IsRegular)
            exp == ExpectedRegular(enReq, enTransport.HeaderOrder)
            H == enTransport.HeaderOrder
            n == Len(Concat([i \in 1..Len(H) |->
                      IF HasKey(enReq.header, CanonicalHeaderKey(H[i]))
                      THEN FieldsOf(enReq.header, CanonicalHeaderKey(H[i]), ToLowerKey(H[i]))
                      ELSE <<>>]))
        IN /\ Len(reg) = Len(exp)
           /\ SubSeq(reg, 1, n) = SubSeq(exp, 1, n)
           /\ Range(reg) = Range(exp)

\* The header-order section as the text gives it: the pseudo-header of each
\* letter m, a, s, p, other letters dropped.
ClaimedPseudo(l) ==
    CASE TrimSpace(l) = "m" -> ":method"
      [] TrimSpace(l) = "a" -> ":authority"
      [] TrimSpace(l) = "s" -> ":scheme"
      [] TrimSpace(l) = "p" -> ":path"
      [] OTHER -> ""
SectionOrder(t) ==
    LET letters == IF t.nparts > 3 THEN t.order ELSE <<>>
        all == [i \in 1..Len(letters) |-> ClaimedPseudo(letters[i])]
        known(x) == x # ""
    IN SelectSeq(all, known)

\* C6: the pseudo-headers come before every regular header, in the order of
\* the Akamai text's header-order section, and in the order :method,
\* :authority, :scheme, :path when the section is absent or gives no
\* pseudo-header.
C6_PseudoHeaderOrder ==
    enPc = "done" =>
        LET pseudo == SelectSeq(enBlock, IsPseudo)
            names == [i \in 1..Len(pseudo) |-> pseudo[i].name.n]
        IN /\ \A i, j \in 1..Len(enBlock) :
                (i < j /\ IsPseudo(enBlock[j])) => IsPseudo(enBlock[i])
           /\ names = IF SectionOrder(enText) = <<>>
                      THEN <<":method", ":authority", ":scheme", ":path">>
                      ELSE SectionOrder(enText)

C6_Witness ==
    /\ enPc = "done"
    /\ enText.nparts > 3
    /\ enText.order = <<"m", "s", "p", "a">>
    /\ Len(SelectSeq(enBlock, IsRegular)) >= 2
    /\ enBlock[2].name.n = ":scheme"

(***************************************************************************)
(* Claims about CustomH2Transport.RoundTrip and its read loop.             *)
(***************************************************************************)
\* every frame written on the connection, in order
Wire == Concat(h2Wire)

\* the read loop has been entered
ReadLoopEntered == h2Pc = "read" \/ (h2Pc = "done" /\ h2Cause # "none")

\* C3: when the context is cancelled or the deadline passes after the HEADERS
\* of stream 1 arrived and before END_STREAM, RoundTrip returns an error, not
\* a response with the bytes received so far.
C3_CancelledReturnsError ==
    (h2Pc = "done" /\ h2Cause = "timeout" /\ h2Hdr) => h2Out.kind = "err"

\* The part of C3 the code keeps: cancelled before any HEADERS, it fails.
C3_CancelledBeforeHeadersFails ==
    (h2Pc = "done" /\ h2Cause = "timeout" /\ ~h2Hdr) => h2Out.kind = "err"

\* The entries of the text's settings section that are id:value with a
\* 16-bit id and a 32-bit value, in the text's order.
RECURSIVE TextSettings(_)
TextSettings(toks) ==
    IF toks = <<>> THEN <<>>
    ELSE LET h == Head(toks)
         IN (IF h.colon /\ h.id \in 0..65535 /\ h.val >= 0
             THEN <<[ID |-> h.id, Val |-> h.val]>> ELSE <<>>) \o TextSettings(Tail(toks))

\* C7: the first SETTINGS frame on the wire carries exactly the parameters of
\* the Akamai text, ids and values, in the text's order: nothing reordered,
\* deduplicated or added.
C7_SettingsAsInText ==
    ReadLoopEntered =>
        \E i \in 1..Len(Wire) :
            /\ Wire[i].type = "SETTINGS"
            /\ \A j \in 1..(i - 1) : Wire[j].type # "SETTINGS"
            /\ Wire[i].payload = TextSettings(h2Text.settings)

C7_Witness ==
    /\ h2Pc = "read"
    /\ h2Text.settings = OddSettings
    /\ Len(Wire) >= 2
    /\ Wire[2].type = "SETTINGS"
    /\ Len(Wire[2].payload) = 3
    /\ Wire[2].payload[1].ID = 4 /\ Wire[2].payload[3].ID = 4

\* the window_update_increment of the Akamai text
TextIncrement == IF h2Text.nparts > 1 /\ h2Text.wu >= 0 THEN h2Text.wu ELSE 0

RECURSIVE SumN(_)
SumN(frames) == IF frames = <<>> THEN 0 ELSE Head(frames).n + SumN(Tail(frames))

\* C8: before any server frame is read the connection carries, in order, the
\* preface, one non-ACK SETTINGS, one WINDOW_UPDATE on stream 0 exactly when
\* the increment is positive (with that increment), one HEADERS on stream 1,
\* then the DATA frames of the request; whatever else is written comes after
\* a server frame was read.
C8_WireOrder ==
    ReadLoopEntered =>
        LET k == IF TextIncrement > 0 THEN 1 ELSE 0
            isData(f) == f.type = "DATA"
            data == SelectSeq(Wire, isData)
            n == 3 + k + Len(data)
        IN /\ Len(Wire) >= n
           /\ Wire[1].type = "PREFACE"
           /\ Wire[2].type = "SETTINGS" /\ ~Wire[2].ack
           /\ k = 1 => /\ Wire[3].type = "WINDOW_UPDATE"
                       /\ Wire[3].stream = 0
                       /\ Wire[3].n = TextIncrement
           /\ Wire[3 + k].type = "HEADERS" /\ Wire[3 + k].stream = 1
           /\ Wire[3 + k].end = (h2Req.bodyLen = 0)
           /\ \A i \in (4 + k)..n : Wire[i].type = "DATA" /\ Wire[i].stream = 1
           /\ \A i \in (4 + k)..n : Wire[i].end = (i = n)
           /\ (Len(data) > 0) = (h2Req.bodyLen > 0)
           /\ SumN(data) = h2Req.bodyLen
           /\ \A i \in (n + 1)..Len(Wire) :
                 \/ Wire[i].ack
                 \/ (Wire[i].type = "WINDOW_UPDATE" /\ h2Body > 0)
           /\ h2Read = 0 => Len(Wire) = n

C8_Witness ==
    /\ h2Pc = "read"
    /\ h2Read = 0
    /\ TextIncrement > 0
    /\ h2Req.bodyLen = maxFrameSize + 1
    /\ Len(Wire) = 7
    /\ Wire[3].type = "WINDOW_UPDATE"
    /\ Wire[7].type = "DATA" /\ Wire[7].end /\ Wire[7].n = 0

\* The other side of C8: no WINDOW_UPDATE in the opening when the increment
\* is zero or absent.
C8_NoWindowUpdateWhenZero ==
    (ReadLoopEntered /\ TextIncrement = 0) => Wire[3].type = "HEADERS"

\* C11: a response whose DATA payloads on stream 1 total at most 100 MiB
\* (104,857,600 bytes) and end with END_STREAM succeeds with every byte, no
\* DATA frame is refused for size while the total is at most 100 MiB, and a
\* response whose payloads total more fails, however the bytes are split
\* into DATA frames.
C11_BodyLimit ==
    h2Pc = "done" =>
        /\ h2Srv.sent > 104857600 => h2Out.kind = "err"
        /\ h2Cause = "too_large" => h2Srv.sent > 104857600
        /\ (h2Cause = "end_stream" /\ h2Srv.sent <= 104857600) =>
              (h2Out.kind = "resp" /\ h2Out.body = h2Srv.sent)

C11_Witness ==
    /\ h2Pc = "done"
    /\ h2Cause = "end_stream"
    /\ h2Hdr
    /\ h2Srv.sent = 104857600
    /\ h2Out.kind = "resp"
    /\ h2Out.body = 104857600

\* The failing side of C11: one byte more than the limit, refused.
C11_OverLimitRefused ==
    h2Pc = "done" /\ h2Srv.sent = 104857601 /\ h2Out.kind = "err"

\* C10: when the connection ends before END_STREAM, the request succeeds with
\* the status, the header fields and the body bytes received so far if the
\* HEADERS of stream 1 had arrived, and fails if they had not.
C10_EOFBeforeEndStream ==
    (h2Pc = "done" /\ h2Cause = "eof") =>
        IF h2Srv.headers
        THEN /\ h2Out.kind = "resp"
             /\ h2Srv.status \in {200, 404} => h2Out.status = h2Srv.status
             /\ h2Out.fields = h2Resp.fields
             /\ h2Out.body = h2Srv.body
        ELSE h2Out.kind = "err"

C10_Witness ==
    /\ h2Pc = "done"
    /\ h2Cause = "eof"
    /\ h2Srv.headers
    /\ h2Srv.body = 5
    /\ h2Out.kind = "resp"
    /\ h2Out.status = 200
    /\ h2Out.body = 5

(***************************************************************************)
(* Claims about h2FallbackTransport.RoundTrip.                             *)
(***************************************************************************)
Called(name) == \E i \in 1..Len(fbLog) : fbLog[i] = name

\* C9: for an https request HTTP/2 is tried first and HTTP/1.1 is tried
\* exactly when the HTTP/2 attempt returned an error, and then the caller gets
\* the HTTP/1.1 outcome alone; for an http request only HTTP/1.1 is used.
C9_FallbackOrder ==
    /\ fbPc \in {"h2", "h1", "done"} =>
          IF fbReq.scheme = "https"
          THEN /\ fbLog[1] = "h2.RoundTrip"
               /\ Called("h1.RoundTrip") <=> fbH2Res.kind = "err"
          ELSE fbLog = <<"h1.RoundTrip">> /\ fbH2Res = NoResult
    /\ fbPc = "done" =>
          IF fbReq.scheme = "https" /\ fbH2Res.kind # "err"
          THEN fbOut = fbH2Res /\ fbH1Res = NoResult
          ELSE fbOut = fbH1Res /\ fbH1Res # NoResult

C9_Witness ==
    /\ fbPc = "done"
    /\ fbReq.scheme = "https"
    /\ fbH2Res = [kind |-> "err", code |-> 1]
    /\ fbLog = <<"h2.RoundTrip", "h2.CloseIdleConnections", "h1.RoundTrip">>
    /\ fbOut = [kind |-> "err", code |-> 2]

(***************************************************************************)
(* Claims about the Params tab.                                            *)
(***************************************************************************)
Count(seq, x) == Cardinality({i \in 1..Len(seq) : seq[i] = x})

\* the enabled rows of the Params tab, as key=value pairs
EnabledParams ==
    LET on(p) == p.enabled /\ p.key # ""
        kept == SelectSeq(stParams, on)
    IN [i \in 1..Len(kept) |-> Pair(kept[i].key, kept[i].value)]

\* C5: the query of the URL that is sent holds each enabled row of the Params
\* tab exactly once: as multisets, its key=value pairs are the enabled rows.
C5_ParamsOnce ==
    stSent.sent =>
        \A k \in ParamKeys, v \in ParamValues :
            Count(stSent.query, Pair(k, v)) = Count(EnabledParams, Pair(k, v))

\* What the code does instead: every enabled row appears twice once the store
\* has written the rows into the URL.
C5_ParamsTwiceAfterSync ==
    (stSent.sent /\ stUrl.query = EnabledParams) =>
        \A k \in ParamKeys, v \in ParamValues :
            Count(stSent.query, Pair(k, v)) = 2 * Count(EnabledParams, Pair(k, v))

(***************************************************************************)
(* Claims about the byte tap.                                              *)
(***************************************************************************)
\* where the call that carried the data is in the order the calls returned
WirePos(d) == CHOOSE i \in 1..Len(tpWire) : tpWire[i].data = d

\* C14: the entries of a tapped connection are in wire order: of two
\* entries, the one recorded first belongs to the Read or Write call that
\* returned first, however the reading and the writing goroutine interleave.
C14_EntriesInWireOrder ==
    \A i, j \in 1..Len(tpEntries) :
        i < j => WirePos(tpEntries[i].data) < WirePos(tpEntries[j].data)

\* The part of C14 the code keeps: the entries of one direction are in wire
\* order.
C14_EachDirectionInWireOrder ==
    \A i, j \in 1..Len(tpEntries) :
        (i < j /\ tpEntries[i].direction = tpEntries[j].direction) =>
            WirePos(tpEntries[i].data) < WirePos(tpEntries[j].data)

IsPrefix(a, b) == Len(a) <= Len(b) /\ SubSeq(b, 1, Len(a)) = a

\* C15: the entry list only grows by appending, a list returned by getEntries
\* changes only when getEntries is called again, and the timestamps never
\* decrease along the list, under every interleaving of Read and Write.
C15_AppendOnlyMonotone ==
    /\ [](\A i \in 1..(Len(tpEntries) - 1) :
             tpEntries[i].elapsed <= tpEntries[i + 1].elapsed)
    /\ [][/\ IsPrefix(tpEntries, tpEntries')
          /\ Len(tpEntries') <= Len(tpEntries) + 1
          /\ tpSnap' # tpSnap => (tpSnap' = tpEntries /\ tpEntries' = tpEntries)]_vars

C15_Witness ==
    /\ Len(tpSnap) = 1
    /\ Len(tpEntries) = 3
    /\ tpEntries[1].direction # tpEntries[2].direction
    /\ WirePos(tpEntries[1].data) > WirePos(tpEntries[2].data)
    /\ tpEntries[1].elapsed < tpEntries[3].elapsed

(***************************************************************************)
(* Claims about mergeConnEntries.                                          *)
(***************************************************************************)
\* where an entry of the shifted, unsorted list ends up in the merged list
MergedPos(d) == CHOOSE i \in 1..Len(mgOut) : mgOut[i].data = d

\* C16: the merged list holds every entry with its time shifted by its
\* connection's start minus the first connection's start, in order of time,
\* and entries with equal shifted time keep the order they had before the
\* sort: recorded order within a connection, earlier connections first.
C16_MergeStable ==
    mgPc = "done" =>
        LET list == Shifted(mgConns)
        IN /\ Len(mgOut) = Len(list)
           /\ \A i \in 1..Len(list) : \E j \in 1..Len(mgOut) : mgOut[j] = list[i]
           /\ \A i \in 1..(Len(mgOut) - 1) : mgOut[i].elapsed <= mgOut[i + 1].elapsed
           /\ \A i, j \in 1..Len(list) :
                 (i < j /\ list[i].elapsed = list[j].elapsed) =>
                     MergedPos(list[i].data) < MergedPos(list[j].data)

\* The part of C16 the code keeps: every entry, shifted, in order of time.
C16_MergeSorted ==
    mgPc = "done" =>
        LET list == Shifted(mgConns)
        IN /\ Len(mgOut) = Len(list)
           /\ \A i \in 1..Len(list) : \E j \in 1..Len(mgOut) : mgOut[j] = list[i]
           /\ \A i \in 1..(Len(mgOut) - 1) : mgOut[i].elapsed <= mgOut[i + 1].elapsed
           /\ \A c \in 1..Len(mgConns) : \A i \in 1..Len(mgConns[c].entries) :
                 mgOut[MergedPos(mgConns[c].entries[i].data)].elapsed =
                     mgConns[c].entries[i].elapsed + (mgConns[c].start - mgConns[1].start)

(***************************************************************************)
(* Claims about BuildSpecFromJA3.                                          *)
(***************************************************************************)
\* a GREASE value: 0x?A?A with both nibbles equal
IsGreaseId(id) == \E k \in 0..15 : id = 2570 + 4112 * k

\* the ids of the JA3 that are no GREASE values, in the JA3's order
DeclaredIds == LET keep(id) == ~IsGreaseId(id) IN SelectSeq(jaParsed.Extensions, keep)

\* C17: the list handed to the shuffle is one GREASE extension, then one
\* extension for each extension id of the JA3 that is no GREASE value, in the
\* JA3's order, none dropped, repeated or moved, then one GREASE extension.
C17_ExtensionsAsInJA3 ==
    jaPc = "done" =>
        /\ Len(jaGrease) = Len(DeclaredIds) + 2
        /\ jaGrease[1].type = "UtlsGREASEExtension"
        /\ jaGrease[Len(jaGrease)].type = "UtlsGREASEExtension"
        /\ \A i \in 1..Len(DeclaredIds) :
              /\ jaGrease[i + 1].id = DeclaredIds[i]
              /\ jaGrease[i + 1].type # "UtlsGREASEExtension"

C17_Witness ==
    /\ jaPc = "done"
    /\ jaParsed.Extensions = <<64250, 41, 0>>
    /\ Len(jaGrease) = 4
    /\ jaGrease[2] = [type |-> "GenericExtension", id |-> 41]
    /\ jaGrease[3] = [type |-> "SNIExtension", id |-> 0]

(***************************************************************************)
(* Claims about a malformed Akamai text.                                   *)
(***************************************************************************)
\* a settings entry that is not id:value with both numbers in range
BadSettingsEntry(t) == \E i \in 1..Len(t.settings) : ~SettingParses(t.settings[i])
\* a header-order letter that is none of m, a, s, p
BadOrderLetter(t) ==
    t.nparts > 3 /\ \E i \in 1..Len(t.order) : TrimSpace(t.order[i]) \notin {"m", "a", "s", "p"}
Malformed(t) == BadSettingsEntry(t) \/ BadOrderLetter(t)

\* C18: with a malformed Akamai text nothing is written to the connection.
C18_MalformedNeverSent == Malformed(h2Text) => Wire = <<>>

\* what is sent instead: the SETTINGS frame carries the entries that did
\* parse, the malformed ones being left out
C18_SentPartiallyParsed ==
    (ReadLoopEntered /\ h2Text.settings = OddSettings) =>
        \E i \in 1..Len(Wire) :
            /\ Wire[i].type = "SETTINGS"
            /\ Wire[i].payload = <<[ID |-> 4, Val |-> 6291456], [ID |-> 1, Val |-> 65536],
                                   [ID |-> 4, Val |-> 1]>>

(***************************************************************************)
(* Claims about the HTTP CONNECT proxy dialer.                             *)
(***************************************************************************)
\* C19: when the dial succeeded, the bytes read from the returned stream and
\* the bytes still to be read from it are together every byte the proxy sent
\* after the blank line of its reply.
C19_TunnelBytesReadable ==
    (pxPc = "done" /\ pxRet.conn) => pxGot \o pxSock = pxProxy.sent

\* once the reply was read, DialContext returns the conn exactly when the
\* reply's status is 200
C19_SucceedsIffOk ==
    /\ (pxPc = "done" /\ pxRet.conn) => pxProxy.status = 200
    /\ (pxPc = "done" /\ pxRet.err = "proxy CONNECT failed") => pxProxy.status # 200
    /\ (pxPc = "done" /\ pxBr # <<>>) => (pxRet.conn <=> pxProxy.status = 200)

\* the bytes that came with the reply stay in br, which is dropped
C19_LostInBuffer ==
    (pxPc = "done" /\ pxRet.conn) => pxBr \o pxGot \o pxSock = pxProxy.sent

(***************************************************************************)
(* Claims about the TLS record parser.                                     *)
(***************************************************************************)
\* the records of the capture, chunk after chunk
CapturedRecords == Concat([i \in 1..Len(tlCapture) |-> tlCapture[i].records])
OnlyCompleteRecords == \A i \in 1..Len(tlCapture) : ~tlCapture[i].partial

\* what annotateTLS says of a record alone
SummaryOfRecord(r) == annotateTLS(RecordBytes(r.type, r.n)).Summary

\* C20: chunks that hold n complete TLS records in all yield n events, one
\* per record, in record order.
C20_OneEventPerRecord ==
    (tlPc = "done" /\ OnlyCompleteRecords) =>
        /\ Len(tlEvents) = Len(CapturedRecords)
        /\ \A i \in 1..Len(tlEvents) :
              tlEvents[i].Summary.text = SummaryOfRecord(CapturedRecords[i])

\* what the parser does: one event per chunk, annotated from the chunk's
\* first record, whose payload is cut at the declared length
C20_OneEventPerChunk ==
    tlPc = "done" =>
        /\ Len(tlEvents) = Len(tlCapture)
        /\ \A i \in 1..Len(tlEvents) :
              /\ tlEvents[i].Size = Len(tlEntries[i].data)
              /\ ~tlCapture[i].partial =>
                    /\ tlEvents[i].Summary.text = SummaryOfRecord(tlCapture[i].records[1])
                    /\ Len(PayloadOf(tlEntries[i].data)) = tlCapture[i].records[1].n

(***************************************************************************)
(* Claims about overlapping Send calls.                                    *)
(***************************************************************************)
\* C21: the timing, the TLS info and the connection trace of a returned
\* response record come from the connections dialled for that Send call only.
C21_NoCrossRequestState ==
    \A r \in Calls :
        clPc[r] = "done" =>
            /\ clResult[r].tcp \in {0, r}
            /\ clResult[r].tls \in {0, r}
            /\ clResult[r].tlsInfo \in {0, r}
            /\ clResult[r].target \in {0, r}
            /\ \A i \in 1..Len(clResult[r].trace) : clResult[r].trace[i] = r

\* a Send call that ran while the other had not begun or had returned gets
\* its own data; stated for call 1 running before call 2 begins
C21_AloneIsClean ==
    (clPc[1] = "done" /\ clPc[2] = "start") =>
        /\ clResult[1].tlsInfo \in {0, 1}
        /\ \A i \in 1..Len(clResult[1].trace) : clResult[1].trace[i] = 1

(***************************************************************************)
(* Claims about the Content-Type inference of buildRequest.                *)
(***************************************************************************)
ContentType == Key("content-type", "canon")
\* the enabled rows of the config that name Content-Type, in any letter case
CallerContentTypes ==
    LET ct(r) == r.enabled /\ r.key.n = "content-type"
    IN SelectSeq(enCfg.headers, ct)
InferredContentType ==
    CASE enCfg.bodyType = "json" -> "application/json"
      [] enCfg.bodyType = "urlencoded" -> "application/x-www-form-urlencoded"
      [] OTHER -> ""

\* C22: the built request carries the caller's Content-Type unchanged when the
\* caller set one; when the caller set none it carries application/json for
\* body type json, application/x-www-form-urlencoded for urlencoded, and no
\* Content-Type for any other body type.
C22_ContentTypeInference ==
    enPc # "start" =>
        LET h == enReq.header
            set == CallerContentTypes
        IN IF Len(set) > 0
           THEN HasKey(h, ContentType) /\ Values(h, ContentType) = <<set[Len(set)].value>>
           ELSE IF InferredContentType = "" THEN ~HasKey(h, ContentType)
           ELSE HasKey(h, ContentType) /\ Values(h, ContentType) = <<InferredContentType>>

\* what the code decides on: the value that Header.Get returns.  A caller's
\* Content-Type with a value is kept, and without one the inference applies
\* as if no Content-Type had been set.
C22_InferenceOnEmptyValue ==
    enPc # "start" =>
        LET h == enReq.header
            set == CallerContentTypes
        IN IF Len(set) > 0 /\ set[Len(set)].value # ""
           THEN Values(h, ContentType) = <<set[Len(set)].value>>
           ELSE IF InferredContentType # ""
           THEN Values(h, ContentType) = <<InferredContentType>>
           ELSE Len(set) > 0 <=> HasKey(h, ContentType)

(***************************************************************************)
(* Claims about decompression in parseResponse.                            *)
(***************************************************************************)
\* the Content-Encoding of the response, in lower case
Encoding == IF rsResp.contentEncoding = "GZIP" THEN "gzip" ELSE rsResp.contentEncoding
\* the bytes received: the body, up to the read limit
Received == [rsResp.body EXCEPT !.len = Min(@, maxBodySize), !.cut = @ \/ rsResp.body.len > maxBodySize]
\* the received bytes are a complete stream of the declared encoding
Decompresses == rsResp.body.form = Encoding /\ rsResp.body.len <= maxBodySize

\* C23: with Content-Encoding gzip or deflate the parse never fails on the
\* decompression; when the decompression fails the record holds the received
\* bytes unchanged, when it succeeds it holds the decompressed bytes, and in
\* both cases contentEncoding reports the encoding.
C23_DecompressFailureKeepsRaw ==
    Encoding \in {"gzip", "deflate"} =>
        /\ rsPc = "start" => parseResponse(rsResp).kind = "ok"
        /\ (rsPc = "done" /\ rsOut.kind = "ok") =>
              /\ rsOut.contentEncoding = Encoding
              /\ rsOut.size = Received.len
              /\ IF Decompresses
                 THEN /\ rsOut.body.form \in {"text", "binary"}
                      /\ rsOut.body.len = 2 * rsResp.body.len
                 ELSE rsOut.body = Received

\* a deflate stream is announced and the bytes are not deflate
C23_Witness ==
    /\ rsPc = "done"
    /\ rsOut.kind = "ok"
    /\ rsResp.contentEncoding = "deflate"
    /\ rsResp.body.form = "gzip"
    /\ rsOut.body = rsResp.body
    /\ rsOut.contentEncoding = "deflate"

(***************************************************************************)
(* Claims about the timing result.                                         *)
(***************************************************************************)
\* v is the whole milliseconds between two set instants, and 0 when either
\* instant was never set
WholeMs(v, start, done) ==
    IF start = 0 \/ done = 0 THEN v = 0
    ELSE v * Millisecond <= done - start /\ done - start < (v + 1) * Millisecond

\* C24: every phase of the timing result is the whole number of milliseconds
\* between its two instants, 0 when either of them was never set, and
\* total >= ttfb + download - 1.
C24_TimingResult ==
    tmPc = "done" =>
        /\ WholeMs(tmOut.TCP, tmT.connectStart, tmT.connectDone)
        /\ WholeMs(tmOut.TLS, tmT.tlsStart, tmT.tlsDone)
        /\ WholeMs(tmOut.TTFB, tmT.requestStart, tmT.gotFirstByte)
        /\ WholeMs(tmOut.Download, tmT.gotFirstByte, tmT.bodyDone)
        /\ WholeMs(tmOut.Total, tmT.requestStart, tmT.bodyDone)
        /\ tmOut.Total >= tmOut.TTFB + tmOut.Download - 1

\* the first byte was never seen
C24_Witness ==
    /\ tmPc = "done"
    /\ tmT.gotFirstByte = 0
    /\ tmT.connectStart # 0
    /\ tmOut.TTFB = 0 /\ tmOut.Download = 0
    /\ tmOut.Total >= 1

\* both halves round down: 0.5 ms and 0.5 ms in a total of 1 ms
C24_RoundingWitness ==
    /\ tmPc = "done"
    /\ tmT.gotFirstByte - tmT.requestStart = 500000
    /\ tmT.bodyDone - tmT.gotFirstByte = 500000
    /\ tmOut.Total = 1 /\ tmOut.TTFB = 0 /\ tmOut.Download = 0

(***************************************************************************)
(* Claims about the protocol the handshake negotiated.                     *)
(***************************************************************************)
\* C25: when the handshake negotiated http/1.1, RoundTrip writes nothing to
\* the connection: no preface, no frame.
C25_NoH2BytesWithoutH2 == h2Alpn = "http/1.1" => Wire = <<>>

\* what happens instead: preface, SETTINGS and HEADERS are written whatever
\* was negotiated
C25_WrittenWhateverNegotiated ==
    (h2Pc = "read" /\ h2Alpn = "http/1.1") =>
        /\ Len(Wire) >= 3
        /\ Wire[1].type = "PREFACE"
        /\ Wire[2].type = "SETTINGS"

(***************************************************************************)
(* Claims about the frames readResponse acts on.                           *)
(***************************************************************************)
\* C26: a response is returned only after a HEADERS frame of stream 1 was
\* decoded, and its status is not the unset status 0.
C26_ResponseOnlyAfterHeaders ==
    (h2Pc = "done" /\ h2Out.kind = "resp") => (h2Hdr /\ h2Out.status # 0)

\* the cases in which the loop returns no response before HEADERS: a read
\* error, GOAWAY and RST_STREAM look at headersReceived
C26_ErrorsBeforeHeadersFail ==
    (h2Pc = "done" /\ ~h2Hdr /\ h2Cause \in {"eof", "timeout", "goaway", "rst"}) =>
        h2Out.kind = "err"

(***************************************************************************)
(* Claims about the fields of the HEADERS block.                           *)
(***************************************************************************)
\* how many fields of the block carry the name n, in any letter case
FieldCount(n) == Cardinality({i \in 1..Len(enBlock) : enBlock[i].name.n = n})

\* C27: whatever the header-order section of the Akamai text, the HEADERS
\* block holds each of :method, :authority, :scheme and :path exactly once.
C27_EachPseudoHeaderOnce ==
    enPc = "done" =>
        \A n \in {":method", ":authority", ":scheme", ":path"} : FieldCount(n) = 1

\* a section that names all four letters once, or none that the parser
\* knows, gives all four pseudo-headers once
C27_FullOrEmptyOrderIsComplete ==
    (enPc = "done" /\
     LET order == enTransport.Fingerprint.HeaderOrder
     IN \/ order = <<>>
        \/ /\ Len(order) = 4
           /\ \A i, j \in 1..4 : i # j => order[i] # order[j]) =>
        \A n \in {":method", ":authority", ":scheme", ":path"} : FieldCount(n) = 1

\* C28: every value of every header of the request is in the block exactly
\* once.
C28_EachHeaderValueOnce ==
    enPc = "done" =>
        \A i \in 1..Len(enReq.header.ins) :
            FieldCount(enReq.header.ins[i].n) = Len(enReq.header.map[i])

\* the ordered list names no header twice: every value once
C28_OnceWhenOrderHasNoRepeat ==
    (enPc = "done" /\
     \A i, j \in 1..Len(enTransport.HeaderOrder) :
         i # j => enTransport.HeaderOrder[i].n # enTransport.HeaderOrder[j].n) =>
        \A i \in 1..Len(enReq.header.ins) :
            FieldCount(enReq.header.ins[i].n) = Len(enReq.header.map[i])

(***************************************************************************)
(* Claims about GOAWAY and RST_STREAM in the read loop.                    *)
(***************************************************************************)
\* the step reads a frame of the given type
Reads(type) ==
    /\ h2Read' = h2Read + 1
    /\ h2Srv'.last.type = type
    /\ h2Srv'.last.at = h2Read'

\* the step ends the request with the response received so far
Finalises ==
    /\ h2Pc' = "done"
    /\ h2Out'.kind = "resp"
    /\ h2Out'.status = h2Resp.status
    /\ h2Out'.body = h2Body

\* the step ends the request with the given error
FailsWith(err) == h2Pc' = "done" /\ h2Out'.kind = "err" /\ h2Out'.err = err

\* the step leaves the request in the read loop, outcome and body untouched
KeepsReading == h2Pc' = "read" /\ h2Out' = h2Out /\ h2Body' = h2Body /\ h2Resp' = h2Resp

\* C29: on GOAWAY the request is finalised with the body so far if headers
\* were received; otherwise reading continues if the code is NO_ERROR and
\* stream 1 is within the last stream id; otherwise the request fails with
\* the error code of the GOAWAY.
C29_GoAway ==
    [][Reads("GOAWAY") =>
          IF h2Hdr THEN Finalises
          ELSE IF h2Srv'.last.code = 0 /\ h2Srv'.last.id >= 1 THEN KeepsReading
          ELSE FailsWith(IF h2Srv'.last.code = 0 THEN "GOAWAY: NO_ERROR"
                         ELSE "GOAWAY: INTERNAL_ERROR")]_vars

\* NO_ERROR with a last stream id below 1, before any headers
C29_Witness ==
    /\ h2Pc = "done"
    /\ h2Cause = "goaway"
    /\ ~h2Hdr
    /\ h2Srv.last = [type |-> "GOAWAY", code |-> 0, id |-> 0, at |-> h2Read,
                     ack |-> FALSE, data |-> <<>>]
    /\ h2Out.kind = "err"
    /\ h2Out.err = "GOAWAY: NO_ERROR"

\* C30: an RST_STREAM on stream 1 finalises the request with the body so far
\* if headers were received and fails it with the reset's error code
\* otherwise; an RST_STREAM on another stream changes neither the outcome nor
\* the body.
C30_RstStream ==
    [][Reads("RST_STREAM") =>
          IF h2Srv'.last.id # 1 THEN KeepsReading
          ELSE IF h2Hdr THEN Finalises
          ELSE FailsWith(IF h2Srv'.last.code = 8 THEN "RST_STREAM: CANCEL"
                         ELSE "RST_STREAM: INTERNAL_ERROR")]_vars

\* a reset of another stream, then the response completes
C30_Witness ==
    /\ h2Pc = "done"
    /\ h2Cause = "end_stream"
    /\ h2Srv.last.type = "RST_STREAM"
    /\ h2Srv.last.id = 3
    /\ h2Out.kind = "resp"
    /\ h2Out.body = 5

\* a reset of stream 1 after the headers and five bytes of body
C30_FinalisedWitness ==
    /\ h2Pc = "done"
    /\ h2Cause = "rst"
    /\ h2Hdr
    /\ h2Out.kind = "resp"
    /\ h2Out.body = 5

(***************************************************************************)
(* Claims about the frames the transport writes.                           *)
(***************************************************************************)
\* the frames the read loop has written, in order: every write after the
\* preface and the flush of the buffered frames
ReadLoopWrites ==
    IF Len(h2Wire) > 2 THEN Concat(SubSeq(h2Wire, 3, Len(h2Wire))) ELSE <<>>

\* the sum of the WINDOW_UPDATE increments the read loop has written on a stream
CreditOn(stream) ==
    SumN(SelectSeq(ReadLoopWrites,
                   LAMBDA f : f.type = "WINDOW_UPDATE" /\ f.stream = stream))

\* the two writes that return n bytes of credit: stream 0, then stream 1
CreditFor(n) ==
    <<<<[type |-> "WINDOW_UPDATE", stream |-> 0, end |-> FALSE, ack |-> FALSE,
         n |-> n, payload |-> <<>>]>>,
      <<[type |-> "WINDOW_UPDATE", stream |-> 1, end |-> FALSE, ack |-> FALSE,
         n |-> n, payload |-> <<>>]>>>>

\* C31 as stated: every DATA frame read on stream 1 with a non-empty payload
\* of n bytes is followed by one WINDOW_UPDATE of n on stream 0 and one on
\* stream 1, and a DATA frame with an empty payload by none.
C31_CreditForEveryDataFrame ==
    [][Reads("DATA") /\ h2Srv'.last.id = 1 =>
          h2Wire' = IF h2Srv'.last.code > 0
                    THEN h2Wire \o CreditFor(h2Srv'.last.code)
                    ELSE h2Wire]_vars

\* C31: every DATA frame on stream 1 that the loop accepts (it does not take
\* the body past maxResponseBodySize) with a non-empty payload of n bytes is
\* followed by one WINDOW_UPDATE of n on stream 0 and one on stream 1; an
\* empty payload, and a frame the loop refuses, by none; so on each of the two
\* streams the sum of the increments is the number of body bytes accepted.
C31_CreditForAcceptedData ==
    /\ [][Reads("DATA") /\ h2Srv'.last.id = 1 =>
            h2Wire' = IF h2Srv'.last.code > 0 /\ h2Body' = h2Body + h2Srv'.last.code
                      THEN h2Wire \o CreditFor(h2Srv'.last.code)
                      ELSE h2Wire]_vars
    /\ [](CreditOn(0) = h2Body /\ CreditOn(1) = h2Body)

\* two non-empty frames and an empty one have been accepted, and a third
\* non-empty frame has been refused
C31_Witness ==
    /\ h2Cause = "too_large"
    /\ h2Srv.last.type = "DATA"
    /\ h2Srv.last.code > 0
    /\ h2Body > maxReadFrameSize
    /\ CreditOn(0) = h2Body
    /\ CreditOn(1) = h2Body
    /\ Len(ReadLoopWrites) >= 4
    /\ h2Read > Len(ReadLoopWrites) \div 2 + 1

\* the frames with the ACK flag among the frames a step writes
AcksWritten ==
    SelectSeq(Concat(SubSeq(h2Wire', Len(h2Wire) + 1, Len(h2Wire'))), LAMBDA f : f.ack)

\* C32: a step that reads a SETTINGS frame without ACK writes exactly one
\* SETTINGS ACK, a step that reads a PING without ACK writes exactly one PING
\* ACK with the 8 bytes the PING carried, both in the step that reads the
\* frame and so before the next frame is read; no other step, and no frame
\* that carries ACK, makes the transport write a frame with the ACK flag.
C32_Acknowledgements ==
    [][AcksWritten =
          IF Reads("SETTINGS") /\ ~h2Srv'.last.ack
          THEN <<[type |-> "SETTINGS", stream |-> 0, end |-> FALSE, ack |-> TRUE,
                  n |-> 0, payload |-> <<>>]>>
          ELSE IF Reads("PING") /\ ~h2Srv'.last.ack
          THEN <<[type |-> "PING", stream |-> 0, end |-> FALSE, ack |-> TRUE,
                  n |-> 8, payload |-> h2Srv'.last.data]>>
          ELSE <<>>]_vars

\* a PING with non-zero data was answered, then a SETTINGS ACK and a PING ACK
\* were read and left unanswered
C32_Witness ==
    /\ h2Read = 3
    /\ h2Srv.last.type \in {"SETTINGS", "PING"}
    /\ h2Srv.last.ack
    /\ Len(h2Wire) = 3
    /\ h2Wire[3] = <<[type |-> "PING", stream |-> 0, end |-> FALSE, ack |-> TRUE,
                      n |-> 8, payload |-> <<1, 2, 3, 4, 5, 6, 7, 8>>]>>

\* the request's frames as they reached the connection: the write that
\* flushes writeBuf
Flushed == IF Len(h2Wire) >= 2 THEN h2Wire[2] ELSE <<>>
FlushedOf(type) == SelectSeq(Flushed, LAMBDA f : f.type = type)

\* the DATA frames are consecutive pieces of the body: the first starts at
\* its first byte, each next one where the one before ended, and the last
\* non-empty one ends at its last byte
CoversBody(data, len) ==
    LET full == SelectSeq(data, LAMBDA f : f.n > 0)
    IN /\ \A i \in 1..Len(full) :
            /\ full[i].payload[1] = (IF i = 1 THEN 0 ELSE full[i - 1].payload[2])
            /\ full[i].payload[2] = full[i].payload[1] + full[i].n
       /\ (IF full = <<>> THEN 0 ELSE full[Len(full)].payload[2]) = len
       /\ \A i \in 1..Len(data) : data[i].n = 0 => data[i].payload = <<>>

\* C33: the request has one HEADERS frame, on stream 1, with END_HEADERS, and
\* with END_STREAM iff the request has no body; a request without a body has
\* no DATA frame; with a body every DATA frame is on stream 1 and carries at
\* most 16,384 bytes, the payloads in order are the body, and END_STREAM is
\* on the last DATA frame and on no other.
C33_RequestFraming ==
    Len(h2Wire) >= 2 =>
        LET hs == FlushedOf("HEADERS")
            data == FlushedOf("DATA")
        IN /\ Len(hs) = 1
           /\ hs[1].stream = 1
           /\ hs[1].endHeaders
           /\ hs[1].end <=> (h2Req.bodyLen = 0)
           /\ Flushed[Len(Flushed) - Len(data)] = hs[1]
           /\ (h2Req.bodyLen = 0) => data = <<>>
           /\ (h2Req.bodyLen # 0) =>
                 /\ data # <<>>
                 /\ \A i \in 1..Len(data) :
                       /\ data[i].stream = 1
                       /\ data[i].n <= 16384
                       /\ data[i].end <=> (i = Len(data))
                 /\ CoversBody(data, h2Req.bodyLen)

\* a body of 16,385 bytes went out as three DATA frames
C33_Witness ==
    /\ h2Pc = "read"
    /\ h2Req.bodyLen = 16385
    /\ Len(FlushedOf("DATA")) = 3
    /\ FlushedOf("DATA")[2].payload = <<16384, 16385>>

\* C34: a DATA frame with an empty payload is among the request's frames only
\* when the body length is a positive multiple of 16,384; for any other body
\* the last DATA frame is non-empty and carries END_STREAM.
C34_EmptyFrameOnlyOnBoundary ==
    Len(h2Wire) >= 2 =>
        LET data == FlushedOf("DATA")
            onBoundary == h2Req.bodyLen > 0 /\ h2Req.bodyLen % maxFrameSize = 0
        IN /\ (\E i \in 1..Len(data) : data[i].n = 0) => onBoundary
           /\ (h2Req.bodyLen > 0 /\ ~onBoundary) =>
                 /\ data # <<>>
                 /\ data[Len(data)].n > 0
                 /\ data[Len(data)].end

\* C38: the client preface never reaches the connection in a write of its
\* own: the write that carries it also carries the SETTINGS frame and the
\* HEADERS frame of the request.
C38_PrefaceInTheFlush ==
    \A i \in 1..Len(h2Wire) :
        (\E k \in 1..Len(h2Wire[i]) : h2Wire[i][k].type = "PREFACE") =>
            /\ \E k \in 1..Len(h2Wire[i]) :
                  h2Wire[i][k].type = "SETTINGS" /\ ~h2Wire[i][k].ack
            /\ \E k \in 1..Len(h2Wire[i]) : h2Wire[i][k].type = "HEADERS"

(***************************************************************************)
(* Claims about the requests of a redirect chain.                          *)
(***************************************************************************)
\* C36: every request the redirect follower sends after the first carries the
\* caller's headers, cookies and authentication, as the first request does.
C36_FollowUpsKeepHeaders ==
    \A i \in 1..Len(rdSent) : rdSent[i].headers = rdSent[1].headers

(***************************************************************************)
(* Claims about the transport Send uses and the connections it dials.      *)
(***************************************************************************)
\* C35: no connection dialled for a request to an http:// URL has a TLS
\* handshake started on it or the HTTP/2 preface written on it, whatever
\* the TLS configuration is.
C35_PlainHttpStaysPlain ==
    \A i \in 1..Len(snConns) :
        snConns[i].scheme = "http" => ~snConns[i].tls /\ ~snConns[i].preface

\* RoundTrip of the custom transport is working on connection i
InRoundTrip(i) == snCur = i /\ snPc \in {"dialed", "exchange"}

\* the response body over connection i is open
BodyOpen(i) == snBody = i /\ snPc \in {"responded", "parse"}

\* C37: a connection dialled by CustomH2Transport.RoundTrip is open only
\* while RoundTrip works on it or while the response body over it is open; it
\* is closed in the step in which RoundTrip fails after the dial and in the
\* step in which the response body is closed, and in no other step; and once
\* Send has returned no connection dialled for the request is open, with
\* either transport.
C37_ConnectionLifetime ==
    /\ [](\A i \in 1..Len(snConns) :
             (snConns[i].by = "custom" /\ snConns[i].state # "closed") =>
                 InRoundTrip(i) \/ BodyOpen(i))
    /\ [](snPc = "returned" => \A i \in 1..Len(snConns) : snConns[i].state = "closed")
    /\ [][\A i \in 1..Len(snConns) :
             /\ snConns[i].state = "closed" => snConns'[i].state = "closed"
             /\ (snConns[i].by = "custom" /\ snConns[i].state = "open") =>
                   (snConns'[i].state = "closed" <=>
                       \/ InRoundTrip(i) /\ snPc' = "closing" /\ snOut' = "err"
                       \/ BodyOpen(i) /\ snBody' = 0)]_vars

\* a redirect was followed over the custom transport: two connections were
\* dialled, the first closed with the redirect's body, the second by
\* parseResponse, and Send returned a result
C37_Witness ==
    /\ snPc = "returned"
    /\ snOut = "ok"
    /\ Len(snConns) = 2
    /\ \A i \in 1..2 : snConns[i].by = "custom" /\ snConns[i].state = "closed"
                          /\ snConns[i].preface

(***************************************************************************)
(* Claims about the tabs of the request store.                             *)
(***************************************************************************)
\* C40: after any calls of addTab, removeTab, switchTab, duplicateTab,
\* reorderTab and setTabOrder the tab list is not empty, it holds each tab
\* that was opened and not removed exactly once, and activeTabId is the id
\* of a tab in the list.
C40_TabsInvariant ==
    /\ tbTabs # <<>>
    /\ \A i, j \in 1..Len(tbTabs) : i # j => tbTabs[i].id # tbTabs[j].id
    /\ {tbTabs[i].id : i \in 1..Len(tbTabs)} = tbLive
    /\ \E i \in 1..Len(tbTabs) : tbTabs[i].id = tbActive

(***************************************************************************)
(* Claims about the two mutexes.                                           *)
(***************************************************************************)
\* the mutexes a goroutine holds
Held(g) == {m \in DOMAIN lkMu : lkMu[m] = g}

\* C39: a goroutine that is at a network call (a read, a write, the dial,
\* the handshake's reads and writes) holds neither mutex; a goroutine that
\* holds a mutex holds only that one and is at the assignments or copies of
\* that mutex's fields, or at its Unlock.
C39_LockDiscipline ==
    \A g \in LockUsers :
        /\ (~AtEnd(g) /\ Stmt(g).op \in {"io", "test"}) => Held(g) = {}
        /\ AtEnd(g) => Held(g) = {}
        /\ \A m \in Held(g) :
              /\ Held(g) = {m}
              /\ Stmt(g).op \in {"set", "unlock"}
              /\ Stmt(g).mu = m

\* the reading goroutine appends an entry under the tap mutex while Send is
\* in the handshake's read, and the client mutex is free
C39_Witness ==
    /\ lkMu["tap"] = "reader"
    /\ Stmt("reader").op = "set"
    /\ ~AtEnd("send")
    /\ Stmt("send").what = "Conn.Read"
    /\ lkPc["send"] < 20
    /\ lkMu["client"] = "free"

====
